---- MODULE Spec2Model ----
(***************************************************************************)
(* Multi-entity financial consolidation core: FX rate manager and          *)
(* converter, intercompany matcher and elimination engine, PPA manager     *)
(* and the ConsolidationEngine orchestrator (src/src/consolidation).       *)
(*                                                                         *)
(* Number representation.  The code computes in decimal.Decimal.  Here an  *)
(* entry amount is an integer number of cents, an FX rate is an integer    *)
(* number of 1/RateScale, and a presentation-currency amount is kept in    *)
(* "fine units" of 1/RateScale cent, so that amount * rate, sums and the   *)
(* halving of an elimination amount are exact as they are in Decimal.      *)
(* Decimal division (the only rounding operation used) is DivRound:        *)
(* round-half-even to the last kept digit.                                 *)
(*                                                                         *)
(* Dates are day numbers; the calendar has months of DaysPerMonth days.    *)
(***************************************************************************)
EXTENDS Integers, Sequences, FiniteSets, TLC

\* ------------------------------------------------------------------ bounds
\* last day number of the modelled calendar window
MaxDate == 9
\* number of distinct keys the FX rate table may hold
MaxStoredRates == 2

\* --------------------------------------------------------------- constants
\* fixed-point scale of a rate: Decimal("1.0") is RateScale
RateScale == 1000
\* get_rate scans days_back in range(1, 8)
LookbackDays == 7

\* Optional[FXRate] None: the record without a rate
NoRate == [rate |-> 0]

\* ------------------------------------------------------------------ enums
Currency == {"USD", "BRL"}
FXRateType == {"CLOSING", "AVERAGE", "HISTORICAL"}
AccountType == {"BS_ASSET", "BS_LIABILITY", "BS_EQUITY", "INCOME", "EXPENSE", "EQUITY_TXN"}
Dates == 0..MaxDate

\* ------------------------------------------------------------ Decimal ops
Abs(x) == IF x < 0 THEN -x ELSE x
Max(a, b) == IF a >= b THEN a ELSE b
Min(a, b) == IF a <= b THEN a ELSE b

\* Decimal division a / b (b > 0), rounded half-even to an integer of the
\* result's unit.
DivRound(a, b) ==
    LET q == a \div b
        r == a % b
    IN  IF 2 * r > b THEN q + 1
        ELSE IF 2 * r < b THEN q
        ELSE IF q % 2 = 0 THEN q ELSE q + 1

RECURSIVE SumSeq(_)
SumSeq(s) == IF s = <<>> THEN 0 ELSE Head(s) + SumSeq(Tail(s))

VARIABLES
    rates,          \* FXRateManager._rates: key -> rate (0: key absent)
    fx_result       \* the last get_rate / get_average_rate call and its result

\* ============================================================ FXRateManager
RateKeys == Currency \X Currency \X Dates \X FXRateType

\* self._rates[key] for a key that may lie outside the stored window
Stored(from, to, d, t) == IF d \in Dates THEN rates[<<from, to, d, t>>] ELSE 0

FXRate(from, to, d, t, rate, source) ==
    [from_currency |-> from, to_currency |-> to, rate_date |-> d,
     rate_type |-> t, rate |-> rate, source |-> source]

InvertNoop(r) == r
\* FXRate.invert: Decimal("1") / self.rate, currencies swapped
Invert(r) ==
    FXRate(r.to_currency, r.from_currency, r.rate_date, r.rate_type,
           DivRound(RateScale * RateScale, r.rate), "Inverse")

PrevDaysBackFarthest(from, to, d, t) ==
    LET ks == {k \in 1..LookbackDays : Stored(from, to, d - k, t) # 0}
    IN  IF ks = {} THEN 0 ELSE CHOOSE k \in ks : \A j \in ks : k >= j
\* the smallest days_back in 1..LookbackDays with a stored rate, 0 if none
PrevDaysBack(from, to, d, t) ==
    LET ks == {k \in 1..LookbackDays : Stored(from, to, d - k, t) # 0}
    IN  IF ks = {} THEN 0 ELSE CHOOSE k \in ks : \A j \in ks : k <= j

\* FXRateManager.get_rate
get_rate(from, to, d, t) ==
    IF from = to THEN FXRate(from, to, d, t, RateScale, "Same Currency")
    ELSE IF Stored(from, to, d, t) # 0
         THEN FXRate(from, to, d, t, Stored(from, to, d, t), "Stored")
    ELSE IF Stored(to, from, d, t) # 0
         THEN Invert(FXRate(to, from, d, t, Stored(to, from, d, t), "Stored"))
    ELSE LET k == PrevDaysBack(from, to, d, t)
         IN  IF k # 0
             THEN FXRate(from, to, d, t, Stored(from, to, d - k, t), "Previous")
             ELSE NoRate

RECURSIVE CollectRates(_, _, _, _)
\* the while loop of get_average_rate: rate.rate of every day of
\* current_date..end_date for which get_rate resolves a CLOSING rate
CollectRates(from, to, current_date, end_date) ==
    IF current_date > end_date THEN <<>>
    ELSE LET rate == get_rate(from, to, current_date, "CLOSING")
         IN  (IF rate # NoRate THEN <<rate.rate>> ELSE <<>>)
             \o CollectRates(from, to, current_date + 1, end_date)

\* FXRateManager.get_average_rate
get_average_rate(from, to, start_date, end_date) ==
    IF from = to
    THEN FXRate(from, to, end_date, "AVERAGE", RateScale, "Same Currency")
    ELSE LET rs == CollectRates(from, to, start_date, end_date)
         IN  IF rs = <<>> THEN NoRate
             ELSE FXRate(from, to, end_date, "AVERAGE",
                         DivRound(SumSeq(rs), Len(rs)), "Average")

StoredKeys == {k \in RateKeys : rates[k] # 0}

\* FXRateManager.add_rate: upsert of rate.rate (> 0, FXRate.__post_init__)
\* under (from, to, date, type)
AddRate(from, to, d, t, v) ==
    /\ v > 0
    /\ \/ rates[<<from, to, d, t>>] # 0
       \/ Cardinality(StoredKeys) < MaxStoredRates
    /\ rates' = [rates EXCEPT ![<<from, to, d, t>>] = v]

\* a caller's get_rate(from, to, d, t)
GetRate(from, to, d, t) ==
    /\ fx_result' = [op |-> "get_rate", from |-> from, to |-> to, d |-> d,
                     start |-> d, t |-> t, result |-> get_rate(from, to, d, t)]
    /\ UNCHANGED rates

\* a caller's get_average_rate(from, to, start, end)
GetAverageRate(from, to, start, end) ==
    /\ start <= end
    /\ fx_result' = [op |-> "get_average_rate", from |-> from, to |-> to, d |-> end,
                     start |-> start, t |-> "AVERAGE",
                     result |-> get_average_rate(from, to, start, end)]
    /\ UNCHANGED rates

\* the dates, rate types and rate values add_rate is called with
AddDates == {1, 2, MaxDate}
AddTypes == {"CLOSING"}
\* the lookups callers make
QueryTypes == {"CLOSING", "HISTORICAL"}
QueryPairs == {<<"USD", "BRL">>, <<"BRL", "USD">>, <<"USD", "USD">>}
QueryDates == {2, MaxDate - 1, MaxDate}
QueryWindows == {<<1, 3>>, <<3, 4>>, <<3, MaxDate>>, <<1, MaxDate>>}
RateValues == {2 * RateScale, (21 * RateScale) \div 4}

InitFX ==
    /\ rates = [k \in RateKeys |-> 0]
    /\ fx_result = [op |-> "none"]

fxvars == <<rates, fx_result>>

\* ------------------------------------------------------------------ C3
\* two rates are multiplicative inverses up to the rounding of the one
\* Decimal division that invert() performs: |r1 * r2 - 1| <= ulp/2 * max
InverseWithinRounding(r1, r2) ==
    2 * Abs(r1 * r2 - RateScale * RateScale) <= Max(r1, r2)

\* C3 as claimed (for the lookups that resolve at all): whenever
\* get_rate(A, B, d, t) returns a rate for A # B, get_rate(B, A, d, t) returns
\* one too and the two are multiplicative inverses within rounding.
C3_AnyTableInverse ==
    \A A \in Currency, B \in Currency, d \in Dates, t \in FXRateType :
        (A # B /\ get_rate(A, B, d, t) # NoRate) =>
            /\ get_rate(B, A, d, t) # NoRate
            /\ InverseWithinRounding(get_rate(A, B, d, t).rate, get_rate(B, A, d, t).rate)

\* C3 amended: when the table stores a rate for exactly one of the two
\* directions (A, B, d, t) and (B, A, d, t), get_rate returns a rate in both
\* directions and the two are multiplicative inverses within rounding.
C3_OneDirectionInverse ==
    \A A \in Currency, B \in Currency, d \in Dates, t \in FXRateType :
        (A # B /\ Stored(A, B, d, t) # 0 /\ Stored(B, A, d, t) = 0) =>
            /\ get_rate(A, B, d, t) # NoRate
            /\ get_rate(B, A, d, t) # NoRate
            /\ get_rate(A, B, d, t).rate = Stored(A, B, d, t)
            /\ InverseWithinRounding(get_rate(A, B, d, t).rate, get_rate(B, A, d, t).rate)

\* a get_rate call answered by inverting a stored reverse rate whose
\* reciprocal is not exact
C3_Witness ==
    /\ fx_result.op = "get_rate"
    /\ fx_result.result # NoRate
    /\ fx_result.result.source = "Inverse"
    /\ Stored(fx_result.to, fx_result.from, fx_result.d, fx_result.t) = (21 * RateScale) \div 4
    /\ Stored(fx_result.from, fx_result.to, fx_result.d, fx_result.t) = 0

\* ------------------------------------------------------------------ C7
RECURSIVE StoredDayRates(_, _, _, _)
\* the closing rates of the days of current_date..end_date that have a rate
\* stored for that very date (in either direction)
StoredDayRates(from, to, current_date, end_date) ==
    IF current_date > end_date THEN <<>>
    ELSE (IF Stored(from, to, current_date, "CLOSING") # 0
             \/ Stored(to, from, current_date, "CLOSING") # 0
          THEN <<get_rate(from, to, current_date, "CLOSING").rate>> ELSE <<>>)
         \o StoredDayRates(from, to, current_date + 1, end_date)

\* C7 as claimed: get_average_rate(A, B, start, end) for A # B is the mean of
\* the closing rates of exactly the dates of the window that have a rate
\* stored for that date, a date without one adds no term, and the result is
\* None exactly when no date of the window has a stored rate.
C7_MeanOfStoredDays ==
    (fx_result.op = "get_average_rate" /\ fx_result.from # fx_result.to) =>
        LET rs == StoredDayRates(fx_result.from, fx_result.to, fx_result.start, fx_result.d)
        IN  IF rs = <<>> THEN fx_result.result = NoRate
            ELSE /\ fx_result.result # NoRate
                 /\ fx_result.result.rate = DivRound(SumSeq(rs), Len(rs))

\* =============================================================== entities
NoneId == "None"
NoDate == -1

\* Entity(entity_id, functional_currency, parent_entity_id, acquisition_date)
Entity(id, cur, parent, acq) ==
    [entity_id |-> id, functional_currency |-> cur, parent_entity_id |-> parent,
     acquisition_date |-> acq]

EntityIds == {"E1", "E2"}
\* the entities callers construct
EntityUniverse ==
    {Entity("E1", "USD", NoneId, NoDate), Entity("E2", "BRL", "E1", 0)}

\* ===================================================================== PPA
\* days of a month of the model calendar
DaysPerMonth == 30
\* date.year * 12 + date.month of a day number
MonthOf(d) == d \div DaysPerMonth
\* useful_life_years * 12
MonthsPerYear == 12
\* create_monthly_schedule(months=120)
DefaultScheduleMonths == 120
\* validate_ppa and validate_balance tolerance Decimal("0.01"), in cents
CentTolerance == 1

\* sum(d.values()) of a dict given as a function
RECURSIVE SumValues(_)
SumValues(f) ==
    IF DOMAIN f = {} THEN 0
    ELSE LET k == CHOOSE x \in DOMAIN f : TRUE
         IN  f[k] + SumValues([x \in DOMAIN f \ {k} |-> f[x]])

VARIABLES
    ppas,           \* PPAManager._ppas, in insertion order; ppa_id is the index
    schedules,      \* AmortizationScheduler._schedules: ppa_id -> name -> entries
    impairment_history, \* GoodwillImpairmentTester._impairment_history
    ppa_result      \* the last call of the manager and its outcome

\* PurchasePriceAllocation.__post_init__: the goodwill the dataclass keeps
PostInitGoodwill(pp, fv, goodwill) ==
    IF goodwill = 0 THEN pp - fv ELSE goodwill

\* PPACalculator.calculate_ppa (amounts in cents)
calculate_ppa(entity, pp, fv, intangibles, periods, today) ==
    LET total_intangibles == SumValues(intangibles)
        goodwill == pp - fv - total_intangibles
    IN  [entity_id |-> entity.entity_id,
         acquisition_date |-> IF entity.acquisition_date # NoDate
                              THEN entity.acquisition_date ELSE today,
         purchase_price |-> pp,
         fair_value_net_assets |-> fv,
         goodwill |-> PostInitGoodwill(pp, fv, goodwill),
         intangible_assets |-> intangibles,
         amortization_schedule |-> periods,
         bargain_purchase_logged |-> goodwill < 0]

\* PPACalculator.validate_ppa: the set of errors (empty: valid)
validate_ppa(ppa) ==
    (IF ppa.purchase_price <= 0 THEN {"Purchase price must be positive"} ELSE {})
    \cup (IF ppa.fair_value_net_assets <= 0
          THEN {"Fair value of net assets must be positive"} ELSE {})
    \cup (IF \E n \in DOMAIN ppa.intangible_assets : n \notin DOMAIN ppa.amortization_schedule
          THEN {"No amortization period"} ELSE {})
    \cup (IF Abs(ppa.goodwill - (ppa.purchase_price - ppa.fair_value_net_assets
                                  - SumValues(ppa.intangible_assets))) > CentTolerance
          THEN {"Goodwill calculation error"} ELSE {})

\* the schedule of one intangible: entry month_num (from 0) of a straight
\* line of intangible_value / total_months, amounts in fine units
AmortizationEntries(name, intangible_value, useful_life_years, start_date, months) ==
    LET total_months == useful_life_years * MonthsPerYear
        monthly_amortization == DivRound(intangible_value * RateScale, total_months)
    IN  [i \in 1..Max(0, Min(months, total_months)) |->
            [asset_name |-> name,
             month |-> MonthOf(start_date) + (i - 1),
             monthly_amortization |-> monthly_amortization,
             accumulated_amortization |-> i * monthly_amortization,
             remaining_value |-> intangible_value * RateScale - i * monthly_amortization]]

\* AmortizationScheduler.create_monthly_schedule(ppa): start_date is the
\* acquisition date; intangibles without a (non-zero) period are skipped
create_monthly_schedule(ppa, months) ==
    LET scheduled == {n \in DOMAIN ppa.intangible_assets :
                        /\ n \in DOMAIN ppa.amortization_schedule
                        /\ ppa.amortization_schedule[n] # 0}
    IN  [n \in scheduled |->
            AmortizationEntries(n, ppa.intangible_assets[n], ppa.amortization_schedule[n],
                                ppa.acquisition_date, months)]

\* number of PPAs the manager may hold
MaxPPAs == 1

\* PPAManager.create_ppa
CreatePPA(entity, pp, fv, intangibles, periods, today) ==
    LET ppa == calculate_ppa(entity, pp, fv, intangibles, periods, today)
        errors == validate_ppa(ppa)
        call == [op |-> "create_ppa", purchase_price |-> pp, fair_value_net_assets |-> fv,
                 intangibles |-> intangibles, periods |-> periods]
    IN  /\ Len(ppas) < MaxPPAs
        /\ IF errors # {}
           THEN /\ ppa_result' = [call EXCEPT !.op = "create_ppa raised ValueError"]
                /\ UNCHANGED <<ppas, schedules>>
           ELSE /\ ppas' = Append(ppas, ppa)
                /\ schedules' = Append(schedules, create_monthly_schedule(ppa, DefaultScheduleMonths))
                /\ ppa_result' = call
        /\ UNCHANGED impairment_history

\* an Optional[Dict[str, bool]] argument: None, or the dict in value
NoIndicators == [none |-> TRUE, value |-> <<>>]
Indicators(value) == [none |-> FALSE, value |-> value]

\* the truth value Python gives the argument: None and the empty dict are false
IndicatorsGiven(qualitative_indicators) ==
    ~qualitative_indicators.none /\ DOMAIN qualitative_indicators.value # {}

\* requires a quantitative test whenever one indicator is present
RequiresOnAnyIndicator(indicators) ==
    \E k \in DOMAIN indicators : indicators[k]

\* GoodwillImpairmentTester.test_impairment_qualitative: requires_quantitative_test
test_impairment_qualitative(indicators) ==
    LET triggered_indicators == {k \in DOMAIN indicators : indicators[k]}
    IN  \/ Cardinality(triggered_indicators) >= 2
        \/ "significant_adverse_change" \in triggered_indicators
        \/ "adverse_financial_performance" \in triggered_indicators

\* GoodwillImpairmentTester.test_impairment_quantitative: the impairment
\* returned and the history after the call (amounts in cents)
test_impairment_quantitative(history, ppa_id, carrying_amount, recoverable_amount) ==
    IF carrying_amount > recoverable_amount
    THEN [impairment |-> carrying_amount - recoverable_amount,
          history |-> Append(history,
                         [ppa_id |-> ppa_id,
                          entity_id |-> ppas[ppa_id].entity_id,
                          impairment_amount |-> carrying_amount - recoverable_amount,
                          carrying_amount |-> carrying_amount,
                          recoverable_amount |-> recoverable_amount])]
    ELSE [impairment |-> 0, history |-> history]

\* number of records the history may hold
MaxImpairments == 2

\* PPAManager.run_impairment_test
RunImpairmentTest(entity_id, carrying_amount, recoverable_amount, qualitative_indicators) ==
    LET found == {p \in 1..Len(ppas) : ppas[p].entity_id = entity_id}
        call == [op |-> "run_impairment_test", entity_id |-> entity_id,
                 carrying_amount |-> carrying_amount,
                 recoverable_amount |-> recoverable_amount,
                 qualitative_indicators |-> qualitative_indicators,
                 quantitative |-> FALSE, returned |-> 0]
    IN  /\ Len(impairment_history) < MaxImpairments
        /\ IF found = {}
           THEN /\ ppa_result' = call
                /\ UNCHANGED impairment_history
           ELSE IF /\ IndicatorsGiven(qualitative_indicators)
                   /\ ~test_impairment_qualitative(qualitative_indicators.value)
           THEN /\ ppa_result' = call
                /\ UNCHANGED impairment_history
           ELSE LET ppa_id == CHOOSE p \in found : \A q \in found : p <= q
                    tested == test_impairment_quantitative(impairment_history, ppa_id,
                                                           carrying_amount, recoverable_amount)
                IN  /\ ppa_result' = [call EXCEPT !.quantitative = TRUE,
                                                  !.returned = tested.impairment]
                    /\ impairment_history' = tested.history
        /\ UNCHANGED <<ppas, schedules>>

\* the arguments run_impairment_test is called with
CarryingAmounts == {400, 500}
RecoverableAmounts == {400, 450}
IndicatorChoices ==
    {NoIndicators, Indicators(<<>>),
     Indicators([k \in {"significant_adverse_change"} |-> TRUE]),
     Indicators([k \in {"significant_adverse_change"} |-> FALSE]),
     Indicators([k \in {"adverse_financial_performance"} |-> TRUE]),
     Indicators([k \in {"regulatory_changes"} |-> TRUE]),
     Indicators([k \in {"regulatory_changes", "increased_competition"} |-> TRUE]),
     Indicators([k \in {"regulatory_changes", "increased_competition"} |->
                    k = "regulatory_changes"])}

\* the arguments create_ppa is called with
PurchasePrices == {0, 1000, 1150}
FairValues == {0, 600}
Todays == {1, DaysPerMonth + 10}
IntangibleChoices ==
    {<<>>, [n \in {"customer_list"} |-> 150], [n \in {"customer_list"} |-> 400],
     [n \in {"customer_list", "brand"} |-> IF n = "brand" THEN 150 ELSE 400]}
PeriodChoices ==
    {<<>>, [n \in {"customer_list"} |-> 5],
     [n \in {"customer_list", "brand"} |-> IF n = "brand" THEN 1 ELSE 15],
     [n \in {"customer_list", "brand"} |-> IF n = "brand" THEN 0 ELSE 3]}

InitPPA ==
    /\ ppas = <<>>
    /\ schedules = <<>>
    /\ impairment_history = <<>>
    /\ ppa_result = [op |-> "none"]

ppavars == <<ppas, schedules, impairment_history, ppa_result>>

\* ======================================================= trial balance entry
\* TrialBalanceEntry; amounts in cents
TBEntry(id, entity, d, name, type, debit, credit, cur, desc) ==
    [entry_id |-> id, entity_id |-> entity, period_end_date |-> d,
     account_code |-> id, account_name |-> name, account_type |-> type,
     debit_amount |-> debit, credit_amount |-> credit, currency |-> cur,
     description |-> desc]

\* TrialBalanceEntry.net_amount
net_amount(e) == e.debit_amount - e.credit_amount
\* TrialBalanceEntry.amount_functional
amount_functional(e) == Abs(net_amount(e))

\* ====================================================== IntercompanyMatcher
\* tolerance_percentage = Decimal("0.01") = TolerancePctNum / TolerancePctDen
TolerancePctNum == 1
TolerancePctDen == 100

SameCurrencyToleranceBaseB(amount_a, amount_b) == amount_b
\* the amount the same-currency tolerance is a percentage of
SameCurrencyToleranceBase(amount_a, amount_b) == Max(amount_a, amount_b)

\* IntercompanyMatcher._is_matching_pair: <<is_match, fx_difference>>, the
\* fx_difference in fine units; fx_rates maps (currency, currency) to a rate
is_matching_pair(entry_a, entry_b, fx_rates) ==
    LET amount_a == amount_functional(entry_a)
        amount_b == amount_functional(entry_b)
        rate_key == <<entry_a.currency, entry_b.currency>>
    IN  IF entry_a.currency # entry_b.currency /\ rate_key \in DOMAIN fx_rates
        THEN LET amount_a_converted == amount_a * fx_rates[rate_key]
                 difference == Abs(amount_a_converted - amount_b * RateScale)
                 is_match == difference * TolerancePctDen
                                <= amount_b * RateScale * TolerancePctNum
             IN  <<is_match,
                   IF is_match THEN amount_a_converted - amount_b * RateScale ELSE 0>>
        ELSE LET difference == Abs(amount_a - amount_b)
             IN  <<difference * TolerancePctDen
                     <= SameCurrencyToleranceBase(amount_a, amount_b) * TolerancePctNum,
                   0>>

\* the IntercompanyTransaction of a matched receivable/payable pair
ReceivablePayableTransaction(ar, ap, fx_difference) ==
    [entity_a_id |-> ar.entity_id, entity_b_id |-> ap.entity_id,
     elimination_type |-> "AR_AP",
     amount_entity_a |-> amount_functional(ar), amount_entity_b |-> amount_functional(ap),
     currency_a |-> ar.currency, currency_b |-> ap.currency,
     transaction_date |-> ar.period_end_date, reference_number |-> ar.description,
     fx_gain_loss |-> fx_difference]

LastMatch(ar, payables, matched_payable_ids, fx_rates) ==
    LET ok == {j \in 1..Len(payables) :
                 /\ payables[j].entry_id \notin matched_payable_ids
                 /\ ar.entity_id # payables[j].entity_id
                 /\ is_matching_pair(ar, payables[j], fx_rates)[1]}
    IN  IF ok = {} THEN 0 ELSE CHOOSE j \in ok : \A k \in ok : j >= k

\* index of the payable the inner loop pairs ar with (0: none): the first
\* one, in list order, not yet matched, of another entity and matching
FirstMatch(ar, payables, matched_payable_ids, fx_rates) ==
    LET ok == {j \in 1..Len(payables) :
                 /\ payables[j].entry_id \notin matched_payable_ids
                 /\ ar.entity_id # payables[j].entity_id
                 /\ is_matching_pair(ar, payables[j], fx_rates)[1]}
    IN  IF ok = {} THEN 0 ELSE CHOOSE j \in ok : \A k \in ok : j <= k

RECURSIVE MatchLoop(_, _, _, _, _, _)
\* the outer loop of match_receivables_payables from receivable i on:
\* [matches, log, matched_receivable_ids, matched_payable_ids]
MatchLoop(receivables, payables, fx_rates, i, matched_ar, matched_ap) ==
    IF i > Len(receivables)
    THEN [matches |-> <<>>, log |-> <<>>, matched_ar |-> matched_ar, matched_ap |-> matched_ap]
    ELSE LET ar == receivables[i]
             j == IF ar.entry_id \in matched_ar THEN 0
                  ELSE FirstMatch(ar, payables, matched_ap, fx_rates)
         IN  IF j = 0
             THEN MatchLoop(receivables, payables, fx_rates, i + 1, matched_ar, matched_ap)
             ELSE LET ap == payables[j]
                      fx_difference == is_matching_pair(ar, ap, fx_rates)[2]
                      rest == MatchLoop(receivables, payables, fx_rates, i + 1,
                                        matched_ar \cup {ar.entry_id},
                                        matched_ap \cup {ap.entry_id})
                  IN  [rest EXCEPT
                         !.matches = <<ReceivablePayableTransaction(ar, ap, fx_difference)>> \o @,
                         !.log = <<[action |-> "MATCH_INTERCOMPANY", entity_id |-> ar.entity_id,
                                    ar |-> ar.entry_id, ap |-> ap.entry_id,
                                    fx_diff |-> fx_difference]>> \o @]

\* IntercompanyMatcher.match_receivables_payables: the matches and the
\* entries the call appends to the matcher's audit log
match_receivables_payables(receivables, payables, fx_rates) ==
    LET r == MatchLoop(receivables, payables, fx_rates, 1, {}, {})
        unmatched_ar == Len(receivables) - Cardinality(r.matched_ar)
        unmatched_ap == Len(payables) - Cardinality(r.matched_ap)
    IN  [matches |-> r.matches,
         log |-> r.log \o
                 (IF unmatched_ar > 0 \/ unmatched_ap > 0
                  THEN <<[action |-> "UNMATCHED_INTERCOMPANY", unmatched_ar |-> unmatched_ar,
                          unmatched_ap |-> unmatched_ap]>>
                  ELSE <<>>)]

VARIABLES
    match_result    \* the last matcher call, its arguments and what it returned

\* a caller's match_receivables_payables(receivables, payables, fx_rates):
\* the pending call returns
MatchReceivablesPayables ==
    /\ match_result.op = "call match_receivables_payables"
    /\ match_result' =
          [op |-> "match_receivables_payables",
           receivables |-> match_result.receivables,
           payables |-> match_result.payables, fx_rates |-> match_result.fx_rates,
           result |-> match_receivables_payables(match_result.receivables,
                                                 match_result.payables,
                                                 match_result.fx_rates)]

\* longest receivable and payable list handed to the matcher
MaxMatchList == 2

\* the receivables and payables callers hand to the matcher
ReceivableUniverse ==
    {TBEntry("r1", "E1", 0, "IC Receivable", "BS_ASSET", 100, 0, "USD", "INV-1"),
     TBEntry("r2", "E1", 0, "IC Receivable", "BS_ASSET", 101, 0, "USD", "INV-2"),
     TBEntry("r3", "E2", 0, "IC Receivable", "BS_ASSET", 50, 0, "BRL", "INV-3"),
     TBEntry("r4", "E2", 0, "IC Receivable", "BS_ASSET", 19, 0, "BRL", "INV-4"),
     TBEntry("r5", "E1", 0, "IC Receivable", "BS_ASSET", 103, 0, "BRL", "INV-5")}
PayableUniverse ==
    {TBEntry("p1", "E2", 0, "IC Payable", "BS_LIABILITY", 0, 99, "USD", "INV-1"),
     TBEntry("p2", "E1", 0, "IC Payable", "BS_LIABILITY", 0, 100, "USD", "INV-3"),
     TBEntry("p3", "E2", 0, "IC Payable", "BS_LIABILITY", 0, 102, "BRL", "INV-2"),
     TBEntry("p4", "E1", 0, "IC Payable", "BS_LIABILITY", 0, 101, "USD", "INV-4"),
     TBEntry("p5", "E2", 0, "IC Payable", "BS_LIABILITY", 0, 102, "BRL", "INV-5")}
FxRateTables ==
    {<<>>, [k \in {<<"BRL", "USD">>} |-> 2 * RateScale],
     [k \in {<<"BRL", "USD">>} |-> (21 * RateScale) \div 4]}

\* the lists without repetition of at most n elements of S
RECURSIVE ListsOf(_, _)
ListsOf(S, n) ==
    IF n = 0 THEN {<<>>}
    ELSE LET prev == ListsOf(S, n - 1)
             longest == {l \in prev : Len(l) = n - 1}
         IN  prev \cup {Append(p[1], p[2]) :
                          p \in {q \in longest \X S : \A i \in 1..Len(q[1]) : q[1][i] # q[2]}}

InitMatch == match_result = [op |-> "none"]

\* a matcher call with arguments drawn from the universes above
InitMatchCall ==
    match_result \in
        {[op |-> "call match_receivables_payables", receivables |-> r, payables |-> p,
          fx_rates |-> f] :
            r \in ListsOf(ReceivableUniverse, MaxMatchList),
            p \in ListsOf(PayableUniverse, MaxMatchList),
            f \in FxRateTables}

matchvars == <<match_result>>

\* ============================================================== FXConverter
\* ConsolidationEngine.presentation_currency (the constructor's default)
presentation_currency == "USD"

\* 1 / Decimal("0.02"): CTA amounts are counted in 1/CtaUnitsPerFine of a
\* fine unit (a fine unit is 1/RateScale cent), so that amount * rate * 0.02
\* is the integer amount * rate
CtaUnitsPerFine == 50

ClosingForEveryAccount(account_type) == "CLOSING"
\* FXConverter._get_rate_type_for_account
get_rate_type_for_account(account_type) ==
    IF account_type \in {"INCOME", "EXPENSE"} THEN "AVERAGE"
    ELSE IF account_type = "EQUITY_TXN" THEN "HISTORICAL"
    ELSE "CLOSING"

\* FXConverter._calculate_cta: the balances after the call, in CTA units
calculate_cta(cta, entity_id, amount, current_rate) ==
    [id \in DOMAIN cta \cup {entity_id} |->
        IF id = entity_id
        THEN (IF id \in DOMAIN cta THEN cta[id] ELSE 0) + amount * current_rate
        ELSE cta[id]]

\* FXConverter.get_total_cta(None)
get_total_cta(cta) == SumValues(cta)

\* ConvertedEntry; converted_amount in fine units, cta_amount in CTA units
ConvertedEntry(entry, fx_rate, converted_amount, cta_amount, method) ==
    [original_entry |-> entry, fx_rate |-> fx_rate,
     converted_amount |-> IF entry.currency = presentation_currency
                          THEN net_amount(entry) * RateScale ELSE converted_amount,
     cta_amount |-> cta_amount, conversion_method |-> method]

\* convert_trial_balance_entry once the rate is resolved and the CTA
\* balances are updated to cta_after
ConvertedWithRate(entry, rate_type, fx_rate, cta_after) ==
    [raised |-> FALSE, cta |-> cta_after,
     converted |-> ConvertedEntry(entry, fx_rate, net_amount(entry) * fx_rate.rate,
                       IF entry.account_type \in {"BS_ASSET", "BS_LIABILITY"}
                       THEN cta_after[entry.entity_id] ELSE 0,
                       rate_type)]

ConvertWithRatePassThrough(entry, rate_type, fx_rate, cta) ==
    IF fx_rate = NoRate
    THEN [raised |-> FALSE, cta |-> cta,
          converted |-> ConvertedEntry(entry,
                            FXRate(entry.currency, presentation_currency, NoDate, rate_type,
                                   RateScale, "Pass-through"),
                            net_amount(entry) * RateScale, 0, rate_type)]
    ELSE ConvertedWithRate(entry, rate_type, fx_rate,
             IF entry.account_type \in {"BS_ASSET", "BS_LIABILITY"}
             THEN calculate_cta(cta, entry.entity_id, net_amount(entry), fx_rate.rate)
             ELSE cta)
\* convert_trial_balance_entry from the rate lookup's answer on
ConvertWithRate(entry, rate_type, fx_rate, cta) ==
    IF fx_rate = NoRate
    THEN [raised |-> TRUE, cta |-> cta, converted |-> NoRate]
    ELSE ConvertedWithRate(entry, rate_type, fx_rate,
             IF entry.account_type \in {"BS_ASSET", "BS_LIABILITY"}
             THEN calculate_cta(cta, entry.entity_id, net_amount(entry), fx_rate.rate)
             ELSE cta)

\* the rate convert_trial_balance_entry asks the rate manager for
RateForEntry(entry, rate_type, period_start_date) ==
    IF rate_type = "AVERAGE"
    THEN get_average_rate(entry.currency, presentation_currency, period_start_date,
                          entry.period_end_date)
    ELSE get_rate(entry.currency, presentation_currency, entry.period_end_date, rate_type)

ConvertWithoutShortcut(entry, period_start_date, cta) ==
    ConvertWithRate(entry, get_rate_type_for_account(entry.account_type),
        RateForEntry(entry, get_rate_type_for_account(entry.account_type),
                     period_start_date),
        cta)
\* FXConverter.convert_trial_balance_entry with the CTA balances cta:
\* raised (ValueError, no rate) or the converted entry, and the balances after
convert_trial_balance_entry(entry, period_start_date, cta) ==
    IF entry.currency = presentation_currency
    THEN [raised |-> FALSE, cta |-> cta,
          converted |-> ConvertedEntry(entry,
                            FXRate(entry.currency, presentation_currency, NoDate, "CLOSING",
                                   RateScale, "Same Currency"),
                            net_amount(entry) * RateScale, 0, "No conversion needed")]
    ELSE ConvertWithRate(entry, get_rate_type_for_account(entry.account_type),
             RateForEntry(entry, get_rate_type_for_account(entry.account_type),
                          period_start_date),
             cta)

\* ================================================================= strings
\* the keywords the engine and the eliminator look for in lowercased text
Keywords ==
    {"asset", "liability", "equity", "income", "expense", "receivable", "payable",
     "revenue", "cost"}

\* the keywords that are substrings of text.lower(), for the account type
\* values, the account names of the trial balances and the account names of
\* the eliminations below
KeywordsIn(text) ==
    CASE text = "BS_ASSET" -> {"asset"}
      [] text = "BS_LIABILITY" -> {"liability"}
      [] text \in {"BS_EQUITY", "EQUITY_TXN", "Subsidiary Equity"} -> {"equity"}
      [] text \in {"INCOME", "Dividend Income"} -> {"income"}
      [] text \in {"EXPENSE", "IC Expense", "Service Expense"} -> {"expense"}
      [] text \in {"IC Receivable", "IC Receivables"} -> {"receivable"}
      [] text \in {"IC Payable", "IC Payables", "Dividend Payable"} -> {"payable"}
      [] text \in {"IC Revenue", "Service Revenue"} -> {"revenue"}
      [] OTHER -> {}

\* keyword in text.lower()
Contains(keyword, text) == keyword \in KeywordsIn(text)

\* ==================================================== revenue/expense match
\* rev.description or rev.account_code ("" is a blank description)
RefOf(e) == IF e.description # "" THEN e.description ELSE e.account_code

RelatedOneWay(entity_a, entity_b, relationships) ==
    entity_a \in DOMAIN relationships /\ relationships[entity_a] = entity_b
\* IntercompanyMatcher._are_related_entities; relationships maps an entity
\* id to its parent's id
are_related_entities(entity_a, entity_b, relationships) ==
    \/ entity_a \in DOMAIN relationships /\ relationships[entity_a] = entity_b
    \/ entity_b \in DOMAIN relationships /\ relationships[entity_b] = entity_a

\* the IntercompanyTransaction of a matched revenue/expense pair
RevenueExpenseTransaction(rev, exp) ==
    [entity_a_id |-> rev.entity_id, entity_b_id |-> exp.entity_id,
     elimination_type |-> "REV_EXP",
     amount_entity_a |-> amount_functional(rev), amount_entity_b |-> amount_functional(exp),
     currency_a |-> rev.currency, currency_b |-> exp.currency,
     transaction_date |-> rev.period_end_date, reference_number |-> RefOf(rev),
     fx_gain_loss |-> 0]

RECURSIVE MatchesOfExpense(_, _, _, _)
\* the inner loop of match_revenues_expenses for one expense: the revenues
\* of its reference from revenue i on, in list order
MatchesOfExpense(exp, revenues, relationships, i) ==
    IF i > Len(revenues) THEN <<>>
    ELSE (IF /\ RefOf(revenues[i]) = RefOf(exp)
             /\ are_related_entities(revenues[i].entity_id, exp.entity_id, relationships)
          THEN <<RevenueExpenseTransaction(revenues[i], exp)>> ELSE <<>>)
         \o MatchesOfExpense(exp, revenues, relationships, i + 1)

RECURSIVE RevExpLoop(_, _, _, _)
RevExpLoop(revenues, expenses, relationships, j) ==
    IF j > Len(expenses) THEN <<>>
    ELSE MatchesOfExpense(expenses[j], revenues, relationships, 1)
         \o RevExpLoop(revenues, expenses, relationships, j + 1)

\* IntercompanyMatcher.match_revenues_expenses
match_revenues_expenses(revenues, expenses, relationships) ==
    RevExpLoop(revenues, expenses, relationships, 1)

\* a caller's match_revenues_expenses(revenues, expenses,
\* entity_relationships): the pending call returns
MatchRevenuesExpenses ==
    /\ match_result.op = "call match_revenues_expenses"
    /\ match_result' =
          [op |-> "match_revenues_expenses",
           revenues |-> match_result.revenues, expenses |-> match_result.expenses,
           relationships |-> match_result.relationships,
           result |-> match_revenues_expenses(match_result.revenues, match_result.expenses,
                                              match_result.relationships)]

\* a revenue or expense entry with its account code
CodedEntry(id, entity, code, name, type, debit, credit, cur, desc) ==
    [TBEntry(id, entity, 2, name, type, debit, credit, cur, desc) EXCEPT !.account_code = code]

\* the revenues and expenses callers hand to the matcher: E2 is E1's
\* subsidiary, E3 is not related to E1; descriptions, blank descriptions
\* with account codes, amounts that differ
RevenueUniverse ==
    {CodedEntry("v1", "E1", "4000", "Service Revenue", "INCOME", 0, 50, "USD", "SVC-1"),
     CodedEntry("v2", "E2", "4000", "Service Revenue", "INCOME", 0, 70, "BRL", ""),
     CodedEntry("v3", "E3", "4100", "Service Revenue", "INCOME", 0, 10, "USD", "SVC-1"),
     CodedEntry("v4", "E2", "4200", "Service Revenue", "INCOME", 0, 33, "BRL", "4000")}
ExpenseUniverse ==
    {CodedEntry("x1", "E2", "5000", "Service Expense", "EXPENSE", 25, 0, "BRL", "SVC-1"),
     CodedEntry("x2", "E1", "4000", "Service Expense", "EXPENSE", 999, 0, "USD", ""),
     CodedEntry("x3", "E3", "5000", "Service Expense", "EXPENSE", 51, 0, "USD", "SVC-1"),
     CodedEntry("x4", "E1", "5100", "Service Expense", "EXPENSE", 26, 0, "USD", "SVC-2")}
\* entity_relationships as _perform_eliminations builds it: entity id ->
\* parent id
RelationshipChoices ==
    {<<>>, [id \in {"E2"} |-> "E1"], [id \in {"E2", "E3"} |-> IF id = "E2" THEN "E1" ELSE "E2"]}

\* a revenue/expense matcher call with arguments drawn from the universes
InitRevExpCall ==
    match_result \in
        {[op |-> "call match_revenues_expenses", revenues |-> r, expenses |-> x,
          relationships |-> rel] :
            r \in ListsOf(RevenueUniverse, MaxMatchList),
            x \in ListsOf(ExpenseUniverse, MaxMatchList),
            rel \in RelationshipChoices}

\* ========================================================= EliminationEngine
\* chart_of_accounts.get(key, default)
ChartGet(chart_of_accounts, key, default) ==
    IF key \in DOMAIN chart_of_accounts THEN chart_of_accounts[key] ELSE default

\* EliminationEngine.create_elimination_entry: the EliminationEntry, its
\* elimination_amount (the mean of the two legs) in fine units
create_elimination_entry(transaction, period_end_date, chart_of_accounts) ==
    LET t == transaction.elimination_type
        debit_account ==
            CASE t = "AR_AP" -> ChartGet(chart_of_accounts, "IC_PAYABLE", "IC Payables")
              [] t = "REV_EXP" -> ChartGet(chart_of_accounts, "IC_REVENUE", "IC Revenue")
              [] t = "DIVIDEND" -> ChartGet(chart_of_accounts, "DIVIDEND_INCOME", "Dividend Income")
              [] t = "EQUITY_INV" -> ChartGet(chart_of_accounts, "EQUITY_INVESTMENT",
                                              "Investment in Subsidiary")
              [] OTHER -> "IC Debit"
        credit_account ==
            CASE t = "AR_AP" -> ChartGet(chart_of_accounts, "IC_RECEIVABLE", "IC Receivables")
              [] t = "REV_EXP" -> ChartGet(chart_of_accounts, "IC_EXPENSE", "IC Expense")
              [] t = "DIVIDEND" -> ChartGet(chart_of_accounts, "DIVIDEND_PAYABLE", "Dividend Payable")
              [] t = "EQUITY_INV" -> ChartGet(chart_of_accounts, "SUBSIDIARY_EQUITY",
                                              "Subsidiary Equity")
              [] OTHER -> "IC Credit"
    IN  [intercompany_transaction |-> transaction,
         period_end_date |-> period_end_date,
         debit_account |-> debit_account,
         credit_account |-> credit_account,
         elimination_amount |->
             (transaction.amount_entity_a + transaction.amount_entity_b) * (RateScale \div 2),
         currency |-> presentation_currency,
         fx_gain_loss_account |->
             IF transaction.fx_gain_loss # 0
             THEN ChartGet(chart_of_accounts, "FX_GAIN_LOSS", "FX Gain/Loss") ELSE NoneId,
         fx_gain_loss_amount |-> transaction.fx_gain_loss]

CreateAllAtFirstLeg(transactions, period_end_date, chart_of_accounts) ==
    [i \in 1..Len(transactions) |->
        [create_elimination_entry(transactions[i], period_end_date, chart_of_accounts)
            EXCEPT !.elimination_amount = transactions[i].amount_entity_a * RateScale]]
\* EliminationEngine.create_all_eliminations: one entry per transaction
create_all_eliminations(transactions, period_end_date, chart_of_accounts) ==
    [i \in 1..Len(transactions) |->
        create_elimination_entry(transactions[i], period_end_date, chart_of_accounts)]

RecordedEliminations(created, recorded) == recorded
\* the list create_all_eliminations returns: the entries this call created
\* (not the engine's list, which holds those of earlier calls too)
ReturnedEliminations(created, recorded) == created

\* a caller's create_all_eliminations on a new EliminationEngine for the
\* matches the matcher call returned: the entries returned, which are the
\* engine's _eliminations, and its audit log, one entry per elimination
CreateAllEliminations(period_end_date, chart_of_accounts) ==
    /\ match_result.op = "match_receivables_payables"
    /\ match_result' =
          [op |-> "create_all_eliminations",
           receivables |-> match_result.receivables,
           payables |-> match_result.payables, fx_rates |-> match_result.fx_rates,
           result |-> match_result.result,
           eliminations |-> create_all_eliminations(match_result.result.matches,
                                                    period_end_date, chart_of_accounts),
           audit_log |->
               [i \in 1..Len(match_result.result.matches) |->
                   [action |-> "CREATE_ELIMINATION",
                    entity_id |-> match_result.result.matches[i].entity_a_id]]]

\* =================================================== ConsolidationEliminator
\* ConsolidationEliminator.process_eliminations: the entries created for the
\* matches of trial_balances (receivable/payable matches first)
process_eliminations(all_entries, relationships, fx_rates, period_end_date, chart_of_accounts) ==
    LET receivables == SelectSeq(all_entries,
                           LAMBDA e : Contains("receivable", e.account_name)
                                      /\ net_amount(e) > 0)
        payables == SelectSeq(all_entries,
                        LAMBDA e : Contains("payable", e.account_name) /\ net_amount(e) < 0)
        revenues == SelectSeq(all_entries,
                        LAMBDA e : Contains("revenue", e.account_name)
                                   \/ Contains("income", e.account_name))
        expenses == SelectSeq(all_entries,
                        LAMBDA e : Contains("expense", e.account_name)
                                   \/ Contains("cost", e.account_name))
        ar_ap_matches == match_receivables_payables(receivables, payables, fx_rates).matches
        rev_exp_matches == match_revenues_expenses(revenues, expenses, relationships)
    IN  create_all_eliminations(ar_ap_matches \o rev_exp_matches, period_end_date,
                                chart_of_accounts)

\* ====================================================== ConsolidationEngine
VARIABLES
    entities,        \* ConsolidationEngine._entities, in insertion order
    trial_balances,  \* ConsolidationEngine._trial_balances, in insertion order
    audit_log,       \* ConsolidationEngine._audit_log
    cta_balances,    \* FXConverter._cta_balances: entity_id -> balance
    eliminations,    \* EliminationEngine._eliminations
    run,             \* the consolidate() call in progress or just ended
    engine_result    \* the last register_entity / load_trial_balance call

\* AuditLogEntry(action, entity_id)
AuditLogEntry(action, entity_id) == [action |-> action, entity_id |-> entity_id]

\* the keys of an insertion-ordered dict kept as a sequence of records
KeysOf(d) == {d[i].entity_id : i \in 1..Len(d)}

\* d[key] = value on an insertion-ordered dict: a present key keeps its place
DictSet(d, key, value) ==
    IF key \in KeysOf(d)
    THEN [i \in 1..Len(d) |-> IF d[i].entity_id = key THEN value ELSE d[i]]
    ELSE Append(d, value)

\* rest, the outcome of the later iterations, after an iteration that added
\* the converted entries and the audit entries
Prepended(converted, log, rest) ==
    [rest EXCEPT !.converted = converted \o @, !.log = log \o @]

RECURSIVE ConvertEntries(_, _, _, _)
RECURSIVE AfterEntry(_, _, _, _)
\* the inner loop of _convert_all_trial_balances from entry i on
ConvertEntries(entries, i, period_start_date, cta) ==
    IF i > Len(entries)
    THEN [raised |-> FALSE, cta |-> cta, converted |-> <<>>, log |-> <<>>]
    ELSE AfterEntry(entries, i, period_start_date,
                    convert_trial_balance_entry(entries[i], period_start_date, cta))
\* the inner loop once entry i is converted (c), or has raised
AfterEntry(entries, i, period_start_date, c) ==
    IF c.raised THEN [raised |-> TRUE, cta |-> c.cta, converted |-> <<>>, log |-> <<>>]
    ELSE Prepended(<<c.converted>>, <<>>,
                   ConvertEntries(entries, i + 1, period_start_date, c.cta))

RECURSIVE ConvertFrom(_, _, _, _)
RECURSIVE AfterTrialBalance(_, _, _, _)
\* the outer loop of _convert_all_trial_balances from trial balance k on
ConvertFrom(tbs, k, period_start_date, cta) ==
    IF k > Len(tbs) THEN [raised |-> FALSE, cta |-> cta, converted |-> <<>>, log |-> <<>>]
    ELSE AfterTrialBalance(tbs, k, period_start_date,
                           ConvertEntries(tbs[k].entries, 1, period_start_date, cta))
\* the outer loop once the entries of trial balance k are converted (c), or
\* one of them has raised
AfterTrialBalance(tbs, k, period_start_date, c) ==
    IF c.raised THEN c
    ELSE Prepended(c.converted, <<AuditLogEntry("CONVERT_CURRENCY", tbs[k].entity_id)>>,
                   ConvertFrom(tbs, k + 1, period_start_date, c.cta))

\* ConsolidationEngine._convert_all_trial_balances: whether it raised, the
\* converted entries, the CTA balances it leaves and the audit entries it
\* appended
convert_all_trial_balances(tbs, period_start_date, cta) ==
    ConvertFrom(tbs, 1, period_start_date, cta)

RECURSIVE Flatten(_)
\* all_entries.extend(entries) over the trial balances
Flatten(tbs) == IF tbs = <<>> THEN <<>> ELSE Head(tbs).entries \o Flatten(Tail(tbs))

\* the parent of every registered entity that has one
Relationships(ents) ==
    LET subs == {i \in 1..Len(ents) : ents[i].parent_entity_id # NoneId}
    IN  [id \in {ents[i].entity_id : i \in subs} |->
            (CHOOSE e \in {ents[i] : i \in subs} : e.entity_id = id).parent_entity_id]

\* the fx_rates lookup of _perform_eliminations: the closing rate at period
\* end of every registered functional currency to the presentation currency
FxRatesLookup(ents, period_end_date) ==
    LET curs == {ents[i].functional_currency : i \in 1..Len(ents)}
        found == {c \in curs :
                    /\ c # presentation_currency
                    /\ get_rate(c, presentation_currency, period_end_date, "CLOSING") # NoRate}
    IN  [k \in {<<c, presentation_currency>> : c \in found} |->
            get_rate(k[1], k[2], period_end_date, "CLOSING").rate]

\* ConsolidationEngine._perform_eliminations: the entries process_eliminations
\* creates
perform_eliminations(ents, tbs, period_end_date, chart_of_accounts) ==
    process_eliminations(Flatten(tbs), Relationships(ents),
                         FxRatesLookup(ents, period_end_date), period_end_date,
                         chart_of_accounts)

RECURSIVE ValuesOf(_)
\* d.values() of a dict given as a function, as a list
ValuesOf(f) ==
    IF DOMAIN f = {} THEN <<>>
    ELSE LET k == CHOOSE x \in DOMAIN f : TRUE
         IN  <<f[k]>> \o ValuesOf([x \in DOMAIN f \ {k} |-> f[x]])

RECURSIVE Concat(_)
Concat(ss) == IF ss = <<>> THEN <<>> ELSE Head(ss) \o Concat(Tail(ss))

AmortizationOfAllPeriods(ppa_id, period_end_date) ==
    IF ppa_id \notin DOMAIN schedules THEN <<>>
    ELSE Concat([i \in 1..Len(ValuesOf(schedules[ppa_id])) |-> ValuesOf(schedules[ppa_id])[i]])
\* AmortizationScheduler.get_amortization_for_period: the entries of the
\* schedules of ppa_id that fall in the month of period_end_date
get_amortization_for_period(ppa_id, period_end_date) ==
    IF ppa_id \notin DOMAIN schedules THEN <<>>
    ELSE Concat([i \in 1..Len(ValuesOf(schedules[ppa_id])) |->
                    SelectSeq(ValuesOf(schedules[ppa_id])[i],
                              LAMBDA entry : entry.month = MonthOf(period_end_date))])

\* PPAManager.get_monthly_ppa_entries
get_monthly_ppa_entries(entity_id, period_end_date) ==
    Concat([p \in 1..Len(ppas) |->
               IF ppas[p].entity_id = entity_id
               THEN get_amortization_for_period(p, period_end_date) ELSE <<>>])

\* ConsolidationEngine._apply_ppa_amortization: the entries of the period
\* of every registered entity
apply_ppa_amortization(ents, period_end_date) ==
    Concat([i \in 1..Len(ents) |->
               get_monthly_ppa_entries(ents[i].entity_id, period_end_date)])

\* the bucket the elif chain of _aggregate_consolidated_financials puts a
\* converted entry in
BucketOf(account_type) ==
    IF Contains("asset", account_type) THEN "total_assets"
    ELSE IF Contains("liability", account_type) THEN "total_liabilities"
    ELSE IF Contains("equity", account_type) THEN "total_equity"
    ELSE IF Contains("income", account_type) THEN "total_revenue"
    ELSE IF Contains("expense", account_type) THEN "total_expenses"
    ELSE "none"

EntriesTotalSigned(converted, bucket) ==
    SumSeq([i \in 1..Len(converted) |->
               IF BucketOf(converted[i].original_entry.account_type) # bucket THEN 0
               ELSE converted[i].converted_amount])
\* what the converted entries add to a bucket (fine units)
EntriesTotal(converted, bucket) ==
    SumSeq([i \in 1..Len(converted) |->
               IF BucketOf(converted[i].original_entry.account_type) # bucket THEN 0
               ELSE IF bucket \in {"total_liabilities", "total_expenses"}
                    THEN Abs(converted[i].converted_amount)
                    ELSE converted[i].converted_amount])

\* what the eliminations take off a bucket (fine units)
EliminationsTotal(elims, bucket) ==
    SumSeq([i \in 1..Len(elims) |->
               IF \/ /\ bucket = "total_assets"
                     /\ \/ Contains("asset", elims[i].debit_account)
                        \/ Contains("receivable", elims[i].debit_account)
                  \/ /\ bucket = "total_liabilities"
                     /\ \/ Contains("liability", elims[i].credit_account)
                        \/ Contains("payable", elims[i].credit_account)
                  \/ bucket = "total_revenue" /\ Contains("revenue", elims[i].debit_account)
                  \/ bucket = "total_expenses" /\ Contains("expense", elims[i].credit_account)
               THEN elims[i].elimination_amount ELSE 0])

\* ConsolidationEngine._aggregate_consolidated_financials: totals in fine
\* units, total_cta in CTA units
aggregate_consolidated_financials(converted, elims, ppa_entries, period_end_date, ents, cta) ==
    LET total_assets == EntriesTotal(converted, "total_assets")
                        - EliminationsTotal(elims, "total_assets")
        total_liabilities == EntriesTotal(converted, "total_liabilities")
                             - EliminationsTotal(elims, "total_liabilities")
        total_revenue == EntriesTotal(converted, "total_revenue")
                         - EliminationsTotal(elims, "total_revenue")
        total_ppa_amortization ==
            SumSeq([i \in 1..Len(ppa_entries) |-> ppa_entries[i].monthly_amortization])
        total_expenses == EntriesTotal(converted, "total_expenses")
                          - EliminationsTotal(elims, "total_expenses")
                          + total_ppa_amortization
        net_income == total_revenue - total_expenses
    IN  [period_end_date |-> period_end_date,
         entities_included |-> [i \in 1..Len(ents) |-> ents[i].entity_id],
         trial_balance |-> converted,
         eliminations |-> elims,
         ppa_adjustments |-> ppa_entries,
         total_assets |-> total_assets,
         total_liabilities |-> total_liabilities,
         total_equity |-> EntriesTotal(converted, "total_equity") + net_income,
         total_revenue |-> total_revenue,
         total_expenses |-> total_expenses,
         net_income |-> net_income,
         total_cta |-> get_total_cta(cta),
         is_balanced |-> FALSE,
         validation_errors |-> <<>>]

\* |total_assets - (total_liabilities + total_equity)|
BalanceDifference(c) == Abs(c.total_assets - (c.total_liabilities + c.total_equity))

ValidateBalanceExact(c) ==
    [c EXCEPT !.is_balanced = BalanceDifference(c) = 0,
              !.validation_errors =
                  IF BalanceDifference(c) = 0 THEN @
                  ELSE Append(@, "Balance sheet does not balance")]
\* ConsolidatedFinancials.validate_balance (tolerance Decimal("0.01"))
validate_balance(c) ==
    [c EXCEPT !.is_balanced = BalanceDifference(c) <= CentTolerance * RateScale,
              !.validation_errors =
                  IF BalanceDifference(c) <= CentTolerance * RateScale THEN @
                  ELSE Append(@, "Balance sheet does not balance")]

\* BalanceSheetBalanceRule.validate with the default tolerance: is_valid
BalanceSheetBalanceRule(c) == BalanceDifference(c) <= CentTolerance * RateScale

\* consolidate() calls made on one engine
MaxRuns == 2

\* how many entries of the audit log carry the action
CountAction(action) ==
    Cardinality({i \in 1..Len(audit_log) : audit_log[i].action = action})

\* consolidate() has been entered and has neither returned nor raised
CallInProgress ==
    run.phase \in {"STARTED", "CONVERTED", "ELIMINATED", "PPA_APPLIED", "AGGREGATED",
                   "VALIDATED"}

\* no ConsolidatedFinancials
NoConsolidated == [period_end_date |-> NoDate]

\* no consolidate() call in progress, none just ended
IdleRun ==
    [phase |-> "IDLE", period_end_date |-> NoDate, period_start_date |-> NoDate,
     chart_of_accounts |-> <<>>, steps |-> <<>>, converted |-> <<>>,
     eliminations |-> <<>>, ppa_entries |-> <<>>, consolidated |-> NoConsolidated]

\* ConsolidationEngine.register_entity
RegisterEntity(entity) ==
    /\ ~CallInProgress
    /\ entities' = DictSet(entities, entity.entity_id, entity)
    /\ audit_log' = Append(audit_log, AuditLogEntry("REGISTER_ENTITY", entity.entity_id))
    /\ engine_result' = [op |-> "register_entity", entity_id |-> entity.entity_id]
    /\ run' = IdleRun
    /\ UNCHANGED <<trial_balances, cta_balances, eliminations>>

\* ConsolidationEngine.load_trial_balance
LoadTrialBalance(entity_id, entries) ==
    /\ ~CallInProgress
    /\ IF entity_id \notin KeysOf(entities)
       THEN /\ engine_result' = [op |-> "load_trial_balance raised ValueError",
                                 entity_id |-> entity_id]
            /\ UNCHANGED <<trial_balances, audit_log>>
       ELSE /\ trial_balances' = DictSet(trial_balances, entity_id,
                                         [entity_id |-> entity_id, entries |-> entries])
            /\ audit_log' = Append(audit_log, AuditLogEntry("LOAD_TRIAL_BALANCE", entity_id))
            /\ engine_result' = [op |-> "load_trial_balance", entity_id |-> entity_id]
    /\ run' = IdleRun
    /\ UNCHANGED <<entities, cta_balances, eliminations>>

\* ConsolidationEngine.consolidate, entry: the START_CONSOLIDATION entry
StartConsolidation(period_end_date, period_start_date, chart_of_accounts) ==
    /\ ~CallInProgress
    /\ CountAction("START_CONSOLIDATION") < MaxRuns
    /\ audit_log' = Append(audit_log, AuditLogEntry("START_CONSOLIDATION", NoneId))
    /\ run' = [phase |-> "STARTED", period_end_date |-> period_end_date,
               period_start_date |-> period_start_date,
               chart_of_accounts |-> chart_of_accounts, steps |-> <<>>,
               converted |-> <<>>, eliminations |-> <<>>, ppa_entries |-> <<>>,
               consolidated |-> NoConsolidated]
    /\ engine_result' = [op |-> "consolidate", entity_id |-> NoneId]
    /\ UNCHANGED <<entities, trial_balances, cta_balances, eliminations>>

\* consolidate, step 1: _convert_all_trial_balances; a missing rate ends the
\* call with ValueError
ConvertAllTrialBalances ==
    /\ run.phase = "STARTED"
    /\ \E c \in {convert_all_trial_balances(trial_balances, run.period_start_date,
                                            cta_balances)} :
          /\ cta_balances' = c.cta
          /\ audit_log' = audit_log \o c.log
          /\ run' = IF c.raised THEN [run EXCEPT !.phase = "RAISED"]
                    ELSE [run EXCEPT !.phase = "CONVERTED", !.converted = c.converted,
                                     !.steps = Append(@, "conversion")]
    /\ UNCHANGED <<entities, trial_balances, eliminations, engine_result>>

\* consolidate, step 2: _perform_eliminations
PerformEliminations ==
    LET created == perform_eliminations(entities, trial_balances, run.period_end_date,
                                        run.chart_of_accounts)
    IN  /\ run.phase = "CONVERTED"
        /\ eliminations' = eliminations \o created
        /\ audit_log' = Append(audit_log, AuditLogEntry("CREATE_ELIMINATIONS", NoneId))
        /\ run' = [run EXCEPT !.phase = "ELIMINATED",
                              !.eliminations = ReturnedEliminations(created, eliminations'),
                              !.steps = Append(@, "elimination")]
        /\ UNCHANGED <<entities, trial_balances, cta_balances, engine_result>>

\* consolidate, step 3: _apply_ppa_amortization
ApplyPPAAmortization ==
    LET all_ppa_entries == apply_ppa_amortization(entities, run.period_end_date)
    IN  /\ run.phase = "ELIMINATED"
        /\ audit_log' = IF all_ppa_entries # <<>>
                        THEN Append(audit_log, AuditLogEntry("APPLY_PPA", NoneId))
                        ELSE audit_log
        /\ run' = [run EXCEPT !.phase = "PPA_APPLIED", !.ppa_entries = all_ppa_entries,
                              !.steps = Append(@, "ppa application")]
        /\ UNCHANGED <<entities, trial_balances, cta_balances, eliminations, engine_result>>

\* consolidate, step 4: _aggregate_consolidated_financials
AggregateConsolidatedFinancials ==
    /\ run.phase = "PPA_APPLIED"
    /\ run' = [run EXCEPT
                 !.phase = "AGGREGATED",
                 !.consolidated =
                     aggregate_consolidated_financials(run.converted, run.eliminations,
                         run.ppa_entries, run.period_end_date, entities, cta_balances),
                 !.steps = Append(@, "aggregation")]
    /\ UNCHANGED <<entities, trial_balances, audit_log, cta_balances, eliminations,
                   engine_result>>

\* consolidate, step 5: validate_balance, logged when it fails
ValidateBalance ==
    LET validated == validate_balance(run.consolidated)
    IN  /\ run.phase = "AGGREGATED"
        /\ audit_log' = IF validated.is_balanced THEN audit_log
                        ELSE Append(audit_log, AuditLogEntry("VALIDATION_ERROR", NoneId))
        /\ run' = [run EXCEPT !.phase = "VALIDATED", !.consolidated = validated,
                              !.steps = Append(@, "validation")]
        /\ UNCHANGED <<entities, trial_balances, cta_balances, eliminations, engine_result>>

\* consolidate, exit: the COMPLETE_CONSOLIDATION entry and the return of
\* run.consolidated
CompleteConsolidation ==
    /\ run.phase = "VALIDATED"
    /\ audit_log' = Append(audit_log, AuditLogEntry("COMPLETE_CONSOLIDATION", NoneId))
    /\ run' = [run EXCEPT !.phase = "COMPLETE"]
    /\ UNCHANGED <<entities, trial_balances, cta_balances, eliminations, engine_result>>

enginevars ==
    <<entities, trial_balances, audit_log, cta_balances, eliminations, run, engine_result>>

\* the trial balances callers load; all entries are dated day 2
E1_Intercompany ==
    <<TBEntry("e1-cash", "E1", 2, "Cash", "BS_ASSET", 51, 0, "USD", ""),
      TBEntry("e1-ap", "E1", 2, "IC Payable", "BS_LIABILITY", 0, 100, "USD", "INV-1"),
      TBEntry("e1-rev", "E1", 2, "Service Revenue", "INCOME", 0, 50, "USD", "SVC-1")>>
E2_Intercompany ==
    <<TBEntry("e2-ar", "E2", 2, "IC Receivable", "BS_ASSET", 50, 0, "BRL", "INV-1"),
      TBEntry("e2-exp", "E2", 2, "Service Expense", "EXPENSE", 25, 0, "BRL", "SVC-1"),
      TBEntry("e2-cap", "E2", 2, "Share Capital", "EQUITY_TXN", 0, 50, "BRL", "")>>
\* a trial balance in the presentation currency whose debits equal its credits
E1_Balanced ==
    <<TBEntry("e1-cash", "E1", 2, "Cash", "BS_ASSET", 100, 0, "USD", ""),
      TBEntry("e1-cap", "E1", 2, "Share Capital", "BS_EQUITY", 0, 100, "USD", "")>>
TrialBalanceChoices(entity_id) ==
    IF entity_id = "E1" THEN {E1_Intercompany, E1_Balanced} ELSE {E2_Intercompany}

\* the chart of accounts callers pass: one without the intercompany keys, so
\* that the literal fallback names apply
ChartOfAccountsChoices ==
    {<<>>}
PeriodEnds == {2}
PeriodStarts == {1}

\* the rates and the PPA callers give the engine's rate manager and PPA
\* manager between consolidate() calls
EngineAddRate ==
    /\ ~CallInProgress
    /\ \E t \in {"CLOSING", "HISTORICAL"} : AddRate("BRL", "USD", 2, t, 2 * RateScale)
    /\ fx_result' = [op |-> "add_rate"]
    /\ run' = IdleRun
    /\ UNCHANGED ppavars
    /\ UNCHANGED <<entities, trial_balances, audit_log, cta_balances, eliminations,
                   engine_result>>
EngineCreatePPA ==
    /\ ~CallInProgress
    /\ CreatePPA(Entity("E2", "BRL", "E1", 0), 1000, 600,
                 [n \in {"customer_list"} |-> 150], [n \in {"customer_list"} |-> 5], 1)
    /\ run' = IdleRun
    /\ UNCHANGED <<rates, fx_result>>
    /\ UNCHANGED <<entities, trial_balances, audit_log, cta_balances, eliminations,
                   engine_result>>

\* ConsolidationEngine.__init__
InitEngine ==
    /\ entities = <<>>
    /\ trial_balances = <<>>
    /\ audit_log = <<>>
    /\ cta_balances = <<>>
    /\ eliminations = <<>>
    /\ run = IdleRun
    /\ engine_result = [op |-> "none", entity_id |-> NoneId]

\* ====================================================== ReconciliationEngine
VARIABLES
    reconciliations,    \* ReconciliationEngine._reconciliations
    ifrs_financials,    \* DualReportingEngine._ifrs_financials: date -> financials
    us_gaap_financials, \* DualReportingEngine._us_gaap_financials: date -> financials
    gaap_result         \* the last call and its outcome

\* GAAPReconciliation.total_adjustments
total_adjustments(adjustments) == SumValues(adjustments)

UsGaapIgnoringAdjustments(ifrs_net_income, adjustments) == ifrs_net_income
\* create_reconciliation: us_gaap_net_income = ifrs_net_income + total_adjustments
UsGaapNetIncome(ifrs_net_income, adjustments) ==
    ifrs_net_income + total_adjustments(adjustments)

\* adjustments.get(key, Decimal("0"))
AdjustmentGet(adjustments, key) ==
    IF key \in DOMAIN adjustments THEN adjustments[key] ELSE 0

\* the GAAPReconciliation create_reconciliation builds (amounts in cents)
GAAPReconciliation(ifrs_net_income, adjustments, period_end_date) ==
    [period_end_date |-> period_end_date,
     ifrs_net_income |-> ifrs_net_income,
     us_gaap_net_income |-> UsGaapNetIncome(ifrs_net_income, adjustments),
     adjustments |-> adjustments,
     development_costs_capitalization |-> AdjustmentGet(adjustments, "development_costs"),
     lease_classification |-> AdjustmentGet(adjustments, "lease_classification"),
     revenue_recognition |-> AdjustmentGet(adjustments, "revenue_recognition"),
     goodwill_impairment |-> AdjustmentGet(adjustments, "goodwill_impairment"),
     other_adjustments |-> AdjustmentGet(adjustments, "other")]

\* GAAPReconciliation.validate_reconciliation (tolerance Decimal("0.01"))
validate_reconciliation(r) ==
    Abs((r.ifrs_net_income + total_adjustments(r.adjustments)) - r.us_gaap_net_income)
        <= CentTolerance

\* create_reconciliation calls recorded on one engine
MaxReconciliations == 2

\* ReconciliationEngine.create_reconciliation
CreateReconciliation(ifrs_net_income, adjustments, period_end_date) ==
    LET reconciliation == GAAPReconciliation(ifrs_net_income, adjustments, period_end_date)
    IN  /\ Len(reconciliations) < MaxReconciliations
        /\ IF validate_reconciliation(reconciliation)
           THEN /\ reconciliations' = Append(reconciliations, reconciliation)
                /\ UNCHANGED <<ifrs_financials, us_gaap_financials>>
                /\ gaap_result' = [op |-> "create_reconciliation",
                                   ifrs_net_income |-> ifrs_net_income,
                                   adjustments |-> adjustments,
                                   returned |-> reconciliation]
           ELSE /\ gaap_result' = [op |-> "create_reconciliation raised ValueError",
                                   ifrs_net_income |-> ifrs_net_income,
                                   adjustments |-> adjustments,
                                   returned |-> reconciliation]
                /\ UNCHANGED <<reconciliations, ifrs_financials, us_gaap_financials>>

\* a ConsolidatedFinancials of given totals (cents), kept in fine units
Financials(period_end_date, total_assets, total_liabilities, total_equity, net_income) ==
    [period_end_date |-> period_end_date,
     accounting_standard |-> "IFRS",
     total_assets |-> total_assets * RateScale,
     total_liabilities |-> total_liabilities * RateScale,
     total_equity |-> total_equity * RateScale,
     total_revenue |-> net_income * RateScale,
     total_expenses |-> 0,
     net_income |-> net_income * RateScale,
     total_cta |-> 0,
     is_balanced |-> FALSE,
     validation_errors |-> <<>>]

\* DualReportingEngine._apply_adjustments_to_financials (adjustments in cents)
apply_adjustments_to_financials(ifrs, adjustments) ==
    validate_balance(
        [period_end_date |-> ifrs.period_end_date,
         accounting_standard |-> "US_GAAP",
         total_assets |-> ifrs.total_assets,
         total_liabilities |-> ifrs.total_liabilities,
         total_equity |-> ifrs.total_equity + total_adjustments(adjustments) * RateScale,
         total_revenue |-> ifrs.total_revenue,
         total_expenses |-> ifrs.total_expenses,
         net_income |-> ifrs.net_income + total_adjustments(adjustments) * RateScale,
         total_cta |-> ifrs.total_cta,
         is_balanced |-> FALSE,
         validation_errors |-> <<>>])

\* dict[key] = value on a dict keyed by date
StoreByDate(dict, key, value) ==
    [k \in DOMAIN dict \cup {key} |-> IF k = key THEN value ELSE dict[k]]

\* DualReportingEngine.prepare_dual_reporting
PrepareDualReporting(ifrs, adjustments) ==
    LET reconciliation == GAAPReconciliation(ifrs.net_income \div RateScale, adjustments,
                                             ifrs.period_end_date)
        us_gaap == apply_adjustments_to_financials(ifrs, adjustments)
    IN  /\ Len(reconciliations) < MaxReconciliations
        /\ IF validate_reconciliation(reconciliation)
           THEN /\ reconciliations' = Append(reconciliations, reconciliation)
                /\ ifrs_financials' = StoreByDate(ifrs_financials, ifrs.period_end_date, ifrs)
                /\ us_gaap_financials' =
                      StoreByDate(us_gaap_financials, ifrs.period_end_date, us_gaap)
                /\ gaap_result' = [op |-> "prepare_dual_reporting",
                                   ifrs_financials |-> ifrs,
                                   adjustments |-> adjustments,
                                   returned |-> us_gaap,
                                   reconciliation |-> reconciliation]
           ELSE /\ gaap_result' = [op |-> "prepare_dual_reporting raised ValueError",
                                   ifrs_financials |-> ifrs,
                                   adjustments |-> adjustments]
                /\ UNCHANGED <<reconciliations, ifrs_financials, us_gaap_financials>>

\* the IFRS financials callers pass: balanced, balanced within the tolerance,
\* and not balanced
IfrsFinancialsChoices ==
    {Financials(2, 1000, 600, 400, 250), Financials(2, 1000, 600, 399, 0),
     Financials(2, 1000, 600, 300, -100)}

\* the IFRS net incomes and the adjustments callers pass (cents)
IfrsNetIncomes == {-100, 0, 250}
AdjustmentChoices ==
    {<<>>,
     [k \in {"development_costs"} |-> -1],
     [k \in {"development_costs"} |-> -40],
     [k \in {"other"} |-> 1],
     [k \in {"development_costs", "lease_classification"} |->
         IF k = "development_costs" THEN -40 ELSE 15],
     [k \in {"goodwill_impairment", "inventory"} |->
         IF k = "inventory" THEN 7 ELSE -7]}

\* ReconciliationEngine.__init__
InitGAAP ==
    /\ reconciliations = <<>>
    /\ ifrs_financials = <<>>
    /\ us_gaap_financials = <<>>
    /\ gaap_result = [op |-> "none"]

gaapvars == <<reconciliations, ifrs_financials, us_gaap_financials, gaap_result>>

\* ================================================= FXConverter, called directly
VARIABLES
    conv_result,        \* the last call made on the converter and its outcome
    converter_calls     \* number of calls made on the converter

\* Python truthiness of an Optional[str]: None and "" are false
Truthy(entity_id) == entity_id # NoneId /\ entity_id # ""

\* self._cta_balances.get(entity_id, Decimal("0"))
CtaGet(cta, entity_id) == IF entity_id \in DOMAIN cta THEN cta[entity_id] ELSE 0

\* FXConverter.get_total_cta(entity_id)
get_total_cta_of(cta, entity_id) ==
    IF Truthy(entity_id) THEN CtaGet(cta, entity_id) ELSE get_total_cta(cta)

\* FXConverter.reset_cta(entity_id): the balances after the call
reset_cta(cta, entity_id) ==
    IF Truthy(entity_id)
    THEN [id \in DOMAIN cta \cup {entity_id} |-> IF id = entity_id THEN 0 ELSE cta[id]]
    ELSE <<>>

\* calls made on one converter
MaxConverterCalls == 3

\* a caller's convert_trial_balance_entry(entry, presentation_currency,
\* period_start_date)
ConvertTrialBalanceEntry(entry, period_start_date) ==
    /\ converter_calls < MaxConverterCalls
    /\ \E c \in {convert_trial_balance_entry(entry, period_start_date, cta_balances)} :
          /\ cta_balances' = c.cta
          /\ conv_result' = [op |-> "convert_trial_balance_entry", entry |-> entry,
                             period_start_date |-> period_start_date,
                             entity_id |-> entry.entity_id, cta_before |-> cta_balances,
                             raised |-> c.raised, converted |-> c.converted, value |-> 0]
    /\ converter_calls' = converter_calls + 1
    /\ UNCHANGED rates

\* a caller's get_total_cta(entity_id)
GetTotalCta(entity_id) ==
    /\ converter_calls < MaxConverterCalls
    /\ conv_result' = [op |-> "get_total_cta", entity_id |-> entity_id,
                       cta_before |-> cta_balances,
                       value |-> get_total_cta_of(cta_balances, entity_id)]
    /\ converter_calls' = converter_calls + 1
    /\ UNCHANGED <<rates, cta_balances>>

\* a caller's reset_cta(entity_id)
ResetCta(entity_id) ==
    /\ converter_calls < MaxConverterCalls
    /\ cta_balances' = reset_cta(cta_balances, entity_id)
    /\ conv_result' = [op |-> "reset_cta", entity_id |-> entity_id,
                       cta_before |-> cta_balances, value |-> 0]
    /\ converter_calls' = converter_calls + 1
    /\ UNCHANGED rates

\* the rate the converter's rate manager is given for a date and type
ConverterRateOf(d, t) ==
    IF t = "HISTORICAL" THEN 4 * RateScale
    ELSE IF d = 1 THEN 3 * RateScale ELSE 2 * RateScale

\* add_rate on the converter's rate manager
ConverterAddRate(d, t) ==
    /\ rates[<<"BRL", presentation_currency, d, t>>] = 0
    /\ AddRate("BRL", presentation_currency, d, t, ConverterRateOf(d, t))
    /\ conv_result' = [op |-> "add_rate"]
    /\ UNCHANGED <<cta_balances, converter_calls>>

\* the entity ids callers use: "" is TrialBalanceEntry's default entity_id
ConverterEntityIds == {"E2", ""}
\* the entries callers convert: every account type in either currency,
\* debit and credit balances
ConverterCallEntries ==
    {TBEntry("x", id, 2, "Account", at,
             IF at \in {"BS_LIABILITY", "INCOME"} THEN 0 ELSE 50,
             IF at \in {"BS_LIABILITY", "INCOME"} THEN 30 ELSE 0, cur, "") :
        id \in ConverterEntityIds, at \in AccountType, cur \in Currency}
\* the period starts callers pass
ConverterPeriodStarts == {1, 2}
ConverterRateKeys == {<<1, "CLOSING">>, <<2, "CLOSING">>, <<2, "HISTORICAL">>}

InitConverter ==
    /\ conv_result = [op |-> "none"]
    /\ converter_calls = 0

convvars == <<conv_result, converter_calls>>

\* ==================================================== ConsolidationValidator
VARIABLES
    validator_rules,    \* ConsolidationValidator.rules
    validation_result   \* the last validator call and what it returned

\* the terms of EliminationCompletenessRule that are substrings of
\* account_name.lower(), for the account names of the entries below
IcTermsIn(account_name) ==
    CASE account_name \in {"IC Receivable", "IC Payable"} -> {"ic "}
      [] account_name = "Intercompany Loan" -> {"intercompany"}
      [] OTHER -> {}

\* EliminationCompletenessRule.materiality_threshold (Decimal("10000")), in
\* cents
MaterialityThreshold == 1000000
\* the debt-to-equity ratio ReasonablenessRule flags when exceeded
MaxDebtToEquity == 10
\* MinimumEntitiesRule.minimum
MinimumEntities == 2

\* DebitCreditBalanceRule.validate: is_valid
DebitCreditBalanceRule(c) ==
    Abs(SumSeq([i \in 1..Len(c.trial_balance) |->
                    c.trial_balance[i].original_entry.debit_amount])
        - SumSeq([i \in 1..Len(c.trial_balance) |->
                    c.trial_balance[i].original_entry.credit_amount]))
        <= CentTolerance

\* NetIncomeReconciliationRule.validate: is_valid
NetIncomeReconciliationRule(c) ==
    Abs(c.net_income - (c.total_revenue - c.total_expenses)) <= CentTolerance * RateScale

\* MinimumEntitiesRule.validate: is_valid
MinimumEntitiesRule(c) == Len(c.entities_included) >= MinimumEntities

\* EliminationCompletenessRule.validate: the remaining balances, those of
\* intercompany accounts above the materiality threshold
RemainingBalances(c) ==
    SelectSeq(c.trial_balance,
              LAMBDA e : /\ IcTermsIn(e.original_entry.account_name) # {}
                         /\ Abs(e.converted_amount)
                                > MaterialityThreshold * RateScale)

\* FXRateConsistencyRule.validate: the keys (from, to, date, type) of
\* trial_balance carrying more than one rate
Inconsistencies(c) ==
    {k \in {<<c.trial_balance[i].fx_rate.from_currency, c.trial_balance[i].fx_rate.to_currency,
              c.trial_balance[i].fx_rate.rate_date, c.trial_balance[i].fx_rate.rate_type>> :
                i \in 1..Len(c.trial_balance)} :
        Cardinality({c.trial_balance[i].fx_rate.rate :
                        i \in {j \in 1..Len(c.trial_balance) :
                                 k = <<c.trial_balance[j].fx_rate.from_currency,
                                       c.trial_balance[j].fx_rate.to_currency,
                                       c.trial_balance[j].fx_rate.rate_date,
                                       c.trial_balance[j].fx_rate.rate_type>>}}) > 1}

\* ReasonablenessRule.validate: the warnings, in the order of the checks
ReasonablenessWarnings(c) ==
    (IF c.total_equity < 0 THEN <<"Negative equity position">> ELSE <<>>)
    \o (IF c.total_assets < 0 THEN <<"Negative total assets (ERROR)">> ELSE <<>>)
    \o (IF c.total_equity > 0 /\ c.total_liabilities > MaxDebtToEquity * c.total_equity
        THEN <<"Very high debt-to-equity ratio">> ELSE <<>>)
    \o (IF c.total_revenue < 0 THEN <<"Negative total revenue">> ELSE <<>>)

\* rule.validate(consolidated) of a rule of the validator: is_valid and the
\* message (NoneId when valid); a custom rule answers as it was built to
Validate(rule, c) ==
    CASE rule.rule_id = "BS_BALANCE" ->
            IF BalanceSheetBalanceRule(c) THEN [is_valid |-> TRUE, message |-> NoneId]
            ELSE [is_valid |-> FALSE, message |-> "Balance sheet out of balance"]
      [] rule.rule_id = "DR_CR_BALANCE" ->
            IF DebitCreditBalanceRule(c) THEN [is_valid |-> TRUE, message |-> NoneId]
            ELSE [is_valid |-> FALSE, message |-> "Debit/Credit imbalance"]
      [] rule.rule_id = "NET_INCOME" ->
            IF NetIncomeReconciliationRule(c) THEN [is_valid |-> TRUE, message |-> NoneId]
            ELSE [is_valid |-> FALSE, message |-> "Net income mismatch"]
      [] rule.rule_id = "MIN_ENTITIES" ->
            IF MinimumEntitiesRule(c) THEN [is_valid |-> TRUE, message |-> NoneId]
            ELSE [is_valid |-> FALSE, message |-> "Too few entities included"]
      [] rule.rule_id = "ELIMINATION_COMPLETE" ->
            IF RemainingBalances(c) = <<>> THEN [is_valid |-> TRUE, message |-> NoneId]
            ELSE [is_valid |-> FALSE,
                  message |-> "Material intercompany balances remaining after elimination"]
      [] rule.rule_id = "FX_CONSISTENCY" ->
            IF Inconsistencies(c) = {} THEN [is_valid |-> TRUE, message |-> NoneId]
            ELSE [is_valid |-> FALSE, message |-> "Inconsistent FX rates found"]
      [] rule.rule_id = "REASONABLENESS" ->
            IF ReasonablenessWarnings(c) = <<>> THEN [is_valid |-> TRUE, message |-> NoneId]
            ELSE [is_valid |-> FALSE, message |-> ReasonablenessWarnings(c)]
      [] OTHER ->
            IF rule.custom_valid THEN [is_valid |-> TRUE, message |-> NoneId]
            ELSE [is_valid |-> FALSE, message |-> "Custom rule failed"]

\* ConsolidationValidator._initialize_default_rules
DefaultRules ==
    <<[rule_id |-> "BS_BALANCE", severity |-> "ERROR"],
      [rule_id |-> "DR_CR_BALANCE", severity |-> "ERROR"],
      [rule_id |-> "NET_INCOME", severity |-> "ERROR"],
      [rule_id |-> "MIN_ENTITIES", severity |-> "WARNING"],
      [rule_id |-> "ELIMINATION_COMPLETE", severity |-> "WARNING"],
      [rule_id |-> "FX_CONSISTENCY", severity |-> "WARNING"],
      [rule_id |-> "REASONABLENESS", severity |-> "WARNING"]>>

GatesOnAnyFailure(rule) == TRUE
\* validate_all's test of a failed rule: it turns all_valid False
GatesResult(rule) == rule.severity = "ERROR"

\* the body of validate_all's loop for one rule
AfterRule(acc, rule, outcome) ==
    IF outcome.is_valid THEN acc
    ELSE [all_valid |-> acc.all_valid /\ ~GatesResult(rule),
          results |-> [acc.results EXCEPT
                          ![rule.severity] = Append(@, <<rule.rule_id, outcome.message>>)]]

RECURSIVE ValidateFrom(_, _, _, _)
\* validate_all's loop from rule i on
ValidateFrom(rules_list, c, i, acc) ==
    IF i > Len(rules_list) THEN acc
    ELSE ValidateFrom(rules_list, c, i + 1,
                      AfterRule(acc, rules_list[i], Validate(rules_list[i], c)))

\* ConsolidationValidator.validate_all: (all_valid, results)
validate_all(rules_list, c) ==
    ValidateFrom(rules_list, c, 1,
                 [all_valid |-> TRUE,
                  results |-> [s \in {"ERROR", "WARNING", "INFO"} |-> <<>>]])

\* custom rules added to one validator
MaxCustomRules == 1

\* ConsolidationValidator.add_rule
AddRule(rule) ==
    /\ Len(validator_rules) < Len(DefaultRules) + MaxCustomRules
    /\ validator_rules' = Append(validator_rules, rule)
    /\ validation_result' = [op |-> "add_rule"]

\* a caller's validate_all(consolidated)
ValidateAll(c) ==
    /\ \E r \in {validate_all(validator_rules, c)} :
          validation_result' = [op |-> "validate_all", consolidated |-> c,
                                all_valid |-> r.all_valid, results |-> r.results]
    /\ UNCHANGED validator_rules

\* the custom rules callers add: every severity, passing or failing
CustomRules ==
    {[rule_id |-> "CUSTOM", severity |-> s, custom_valid |-> v] :
        s \in {"ERROR", "WARNING", "INFO"}, v \in BOOLEAN}

\* a converted entry of a validated trial balance
ValidatedEntry(name, type, debit, credit, cur, rate, fine_amount) ==
    [original_entry |-> TBEntry("v", "E1", 2, name, type, debit, credit, cur, ""),
     fx_rate |-> FXRate(cur, presentation_currency, 2, "CLOSING", rate, "Manual"),
     converted_amount |-> fine_amount, cta_amount |-> 0, conversion_method |-> "Standard"]

\* the trial balances of the validated financials: none; debits and credits
\* equal; a debit alone; a material intercompany balance left; one currency
\* pair and date at two rates
ValidatedTrialBalances ==
    {<<>>,
     <<ValidatedEntry("Cash", "BS_ASSET", 50, 0, "USD", RateScale, 50 * RateScale),
       ValidatedEntry("Share Capital", "BS_EQUITY", 0, 50, "USD", RateScale, -50 * RateScale)>>,
     <<ValidatedEntry("Cash", "BS_ASSET", 50, 0, "USD", RateScale, 50 * RateScale)>>,
     <<ValidatedEntry("IC Receivable", "BS_ASSET", 1000001, 0, "USD", RateScale,
                      1000001 * RateScale),
       ValidatedEntry("Share Capital", "BS_EQUITY", 0, 1000001, "USD", RateScale,
                      -1000001 * RateScale)>>,
     <<ValidatedEntry("Cash", "BS_ASSET", 50, 0, "BRL", 2 * RateScale, 100 * RateScale),
       ValidatedEntry("Share Capital", "BS_EQUITY", 0, 50, "BRL", 3 * RateScale,
                      -150 * RateScale)>>}

\* the totals of the validated financials (assets, liabilities, equity,
\* revenue, net income; no expenses): all in order; negative equity and
\* assets; liabilities above ten times equity; out of balance; negative
\* revenue; net income off by more than a cent
ValidatedTotals ==
    {<<100, 0, 100, 50, 49>>, <<-100, 0, -100, 50, 49>>, <<1200, 1100, 100, 50, 49>>,
     <<100, 1100, 100, 50, 0>>, <<100, 0, 100, -50, 0>>, <<-100, 0, 100, -50, -50>>}

\* the ConsolidatedFinancials callers validate
ValidatedFinancials ==
    {[entities_included |-> ents, trial_balance |-> tb,
      total_assets |-> t[1] * RateScale, total_liabilities |-> t[2] * RateScale,
      total_equity |-> t[3] * RateScale, total_revenue |-> t[4] * RateScale,
      total_expenses |-> 0, net_income |-> t[5] * RateScale] :
        ents \in {<<"E1">>, <<"E1", "E2">>}, tb \in ValidatedTrialBalances,
        t \in ValidatedTotals}

InitValidator ==
    /\ validator_rules = DefaultRules
    /\ validation_result = [op |-> "none"]

validatorvars == <<validator_rules, validation_result>>

\* ================================================= the engine's audit trail
VARIABLES
    audit_trail     \* the list a caller got from get_consolidation_audit_trail

ReturnOwnList(log) == [list |-> log, same_list |-> TRUE]
\* ConsolidationEngine.get_consolidation_audit_trail: self._audit_log.copy(),
\* a list of the same entries that is not the engine's list object
get_consolidation_audit_trail(log) == [list |-> log, same_list |-> FALSE]

\* a caller's get_consolidation_audit_trail() between the engine's calls
GetConsolidationAuditTrail ==
    /\ ~CallInProgress
    /\ audit_trail.op = "none"
    /\ \E r \in {get_consolidation_audit_trail(audit_log)} :
          audit_trail' = [op |-> "get_consolidation_audit_trail", list |-> r.list,
                          same_list |-> r.same_list]
    /\ UNCHANGED <<entities, trial_balances, audit_log, cta_balances, eliminations, run,
                   engine_result>>

\* what a caller does to the list it holds
TrailAlterations == {"append", "pop", "clear", "setitem"}

\* the list after list.append(entry), list.pop() (IndexError on an empty
\* list), list.clear(), list[0] = entry (IndexError on an empty list)
AlteredList(list, alteration) ==
    CASE alteration = "append" -> Append(list, AuditLogEntry("FORGED", NoneId))
      [] alteration = "pop" -> IF list = <<>> THEN list ELSE SubSeq(list, 1, Len(list) - 1)
      [] alteration = "clear" -> <<>>
      [] alteration = "setitem" ->
            IF list = <<>> THEN list ELSE [list EXCEPT ![1] = AuditLogEntry("FORGED", NoneId)]

\* the caller alters the list it holds; a list that is the engine's own
\* list object changes the engine's log with it
AlterAuditTrail(alteration) ==
    /\ ~CallInProgress
    /\ audit_trail.op = "get_consolidation_audit_trail"
    /\ audit_trail' = [audit_trail EXCEPT !.op = alteration,
                                          !.list = AlteredList(@, alteration)]
    /\ audit_log' = IF audit_trail.same_list THEN AlteredList(audit_trail.list, alteration)
                    ELSE audit_log
    /\ UNCHANGED <<entities, trial_balances, cta_balances, eliminations, run, engine_result>>

InitTrail == audit_trail = [op |-> "none"]

trailvars == <<audit_trail>>

\* ===================================================== HumanOversightManager
VARIABLES
    review_requests,    \* HumanOversightManager.review_requests: id -> request
    review_history,     \* HumanOversightManager.review_history
    oversight_result    \* the last manager call and how it ended

\* ReviewRequest.is_complete
is_complete(request) == Len(request.actual_reviewers) >= request.required_reviewers

AddReviewCountingRepeats(request, reviewer_id, decision) ==
    LET reviewed == [request EXCEPT !.actual_reviewers = Append(@, reviewer_id)]
    IN  IF is_complete(reviewed)
        THEN [reviewed EXCEPT !.status = decision, !.decision = decision]
        ELSE reviewed
\* ReviewRequest.add_review: the request after the call
add_review(request, reviewer_id, decision) ==
    LET reviewed ==
            IF \E i \in 1..Len(request.actual_reviewers) :
                  request.actual_reviewers[i] = reviewer_id
            THEN request
            ELSE [request EXCEPT !.actual_reviewers = Append(@, reviewer_id)]
    IN  IF is_complete(reviewed)
        THEN [reviewed EXCEPT !.status = decision, !.decision = decision]
        ELSE reviewed

\* the reviewers _create_review_request requires: two for RED, for a period
\* close and for a regulatory report, else one
required_reviewers(risk_level, is_period_close, is_regulatory_report) ==
    IF risk_level = "red" \/ is_period_close \/ is_regulatory_report THEN 2 ELSE 1

\* review requests created on one manager
MaxRequests == 2

\* the request ids uuid4 gives, in the order of creation
RequestIdOf(n) == IF n = 0 THEN "REQ1" ELSE IF n = 1 THEN "REQ2" ELSE "REQ3"

\* how many requests the manager has created
RequestsCreated == Cardinality(DOMAIN review_requests) + Len(review_history)

\* evaluate_transaction on a transaction the scoring engine sends to review:
\* HumanOversightManager._create_review_request
CreateReviewRequest(risk_level, is_period_close, is_regulatory_report) ==
    /\ RequestsCreated < MaxRequests
    /\ \E request \in
          {[request_id |-> RequestIdOf(RequestsCreated), risk_level |-> risk_level,
            required_reviewers |->
                required_reviewers(risk_level, is_period_close, is_regulatory_report),
            actual_reviewers |-> <<>>, status |-> "pending", decision |-> NoneId]} :
          /\ review_requests' =
                [id \in DOMAIN review_requests \cup {request.request_id} |->
                    IF id = request.request_id THEN request ELSE review_requests[id]]
          /\ oversight_result' = [op |-> "evaluate_transaction",
                                  request_id |-> request.request_id, raised |-> FALSE]
    /\ UNCHANGED review_history

\* HumanOversightManager.submit_review
SubmitReview(request_id, reviewer_id, decision) ==
    IF request_id \notin DOMAIN review_requests
    THEN /\ oversight_result' = [op |-> "submit_review", request_id |-> request_id,
                                 reviewer_id |-> reviewer_id, decision |-> decision,
                                 raised |-> TRUE]
         /\ UNCHANGED <<review_requests, review_history>>
    ELSE \E request \in {add_review(review_requests[request_id], reviewer_id, decision)} :
            /\ review_history' = IF is_complete(request) THEN Append(review_history, request)
                                 ELSE review_history
            /\ review_requests' =
                  IF is_complete(request)
                  THEN [id \in DOMAIN review_requests \ {request_id} |-> review_requests[id]]
                  ELSE [review_requests EXCEPT ![request_id] = request]
            /\ oversight_result' = [op |-> "submit_review", request_id |-> request_id,
                                    reviewer_id |-> reviewer_id, decision |-> decision,
                                    raised |-> FALSE]

\* RiskLevel
RiskLevel == {"green", "yellow", "red"}
\* the reviewers and the decisions they submit
ReviewerIds == {"reviewer_1", "reviewer_2"}
Decisions == {"approved", "rejected"}
\* the request ids callers submit reviews for
SubmittedRequestIds == {RequestIdOf(n) : n \in 0..MaxRequests}

InitOversight ==
    /\ review_requests = <<>>
    /\ review_history = <<>>
    /\ oversight_result = [op |-> "none"]

oversightvars == <<review_requests, review_history, oversight_result>>

\* ============================================ calls of stateless operations
VARIABLES
    call_result     \* a call of a stateless operation, its arguments and its return

\* a caller's _aggregate_consolidated_financials(converted_entries,
\* eliminations, ppa_entries, period_end_date): the pending call returns
AggregateCall ==
    /\ call_result.op = "call aggregate_consolidated_financials"
    /\ call_result' =
          [op |-> "aggregate_consolidated_financials",
           converted |-> call_result.converted, eliminations |-> call_result.eliminations,
           ppa_entries |-> call_result.ppa_entries,
           consolidated |->
               aggregate_consolidated_financials(call_result.converted,
                   call_result.eliminations, call_result.ppa_entries, 2, <<>>, <<>>)]

\* a converted entry of the presentation currency
AggregatedEntry(id, type, debit, credit) ==
    ConvertedEntry(TBEntry(id, "E1", 2, "Account", type, debit, credit,
                           presentation_currency, ""),
                   FXRate(presentation_currency, presentation_currency, 2, "CLOSING",
                          RateScale, "Manual"),
                   (debit - credit) * RateScale, 0, "Standard")

\* the converted entries aggregated: every account type with a debit and
\* with a credit balance, all amounts different
AggregatedUniverse ==
    {AggregatedEntry("a1", "BS_ASSET", 64, 0), AggregatedEntry("a2", "BS_ASSET", 0, 1),
     AggregatedEntry("l1", "BS_LIABILITY", 2, 0), AggregatedEntry("l2", "BS_LIABILITY", 0, 32),
     AggregatedEntry("q1", "BS_EQUITY", 4, 0), AggregatedEntry("q2", "BS_EQUITY", 0, 16),
     AggregatedEntry("t1", "EQUITY_TXN", 8, 0), AggregatedEntry("t2", "EQUITY_TXN", 0, 128),
     AggregatedEntry("i1", "INCOME", 256, 0), AggregatedEntry("i2", "INCOME", 0, 512),
     AggregatedEntry("x1", "EXPENSE", 1024, 0), AggregatedEntry("x2", "EXPENSE", 0, 2048)}

\* longest list of converted entries aggregated
MaxAggregated == 2

\* the eliminations aggregated: none, or one revenue/expense elimination
AggregatedEliminations ==
    {<<>>,
     <<create_elimination_entry(
           [entity_a_id |-> "E1", entity_b_id |-> "E2", elimination_type |-> "REV_EXP",
            amount_entity_a |-> 3, amount_entity_b |-> 3, currency_a |-> "USD",
            currency_b |-> "USD", transaction_date |-> 2, reference_number |-> "SVC-1",
            fx_gain_loss |-> 0], 2, <<>>)>>}

\* the PPA entries aggregated: none, or one month's amortization
AggregatedPPAEntries ==
    {<<>>, AmortizationEntries("brand", 60, 1, 2, 1)}

\* an aggregation call with arguments drawn from the universes above
InitAggregateCall ==
    call_result \in
        {[op |-> "call aggregate_consolidated_financials", converted |-> c,
          eliminations |-> e, ppa_entries |-> p] :
            c \in ListsOf(AggregatedUniverse, MaxAggregated),
            e \in AggregatedEliminations, p \in AggregatedPPAEntries}

InitCalls == call_result = [op |-> "none"]

callvars == <<call_result>>

\* ==================================================================== retry
\* the exception classes a wrapped call may raise, each with its base classes
\* (httpx: ConnectTimeout < TimeoutException < TransportError < HTTPError,
\* ConnectError < NetworkError < TransportError, HTTPStatusError < HTTPError)
BasesOf(exc_type) ==
    CASE exc_type = "ConnectTimeout" ->
            {"ConnectTimeout", "TimeoutException", "TransportError", "HTTPError", "Exception"}
      [] exc_type = "ConnectError" ->
            {"ConnectError", "NetworkError", "TransportError", "HTTPError", "Exception"}
      [] exc_type = "HTTPStatusError" -> {"HTTPStatusError", "HTTPError", "Exception"}
      [] OTHER -> {exc_type, "Exception"}

\* isinstance(exception, exc_type)
IsInstance(exception, exc_type) == exc_type \in BasesOf(exception.type)

\* the value of a missing response: getattr(e, "response", None)
NoResponse == 0

\* an exception of a class; status_code is that of its response attribute
Raised(type, status_code) == [type |-> type, status_code |-> status_code]

\* RetryConfig.__post_init__: the default sets
DefaultRetryableStatusCodes == {429, 500, 502, 503, 504}
DefaultRetryableExceptions ==
    {"TimeoutException", "ConnectTimeout", "ReadTimeout", "WriteTimeout", "NetworkError",
     "RemoteProtocolError"}

\* RetryConfig
RetryConfig(max_attempts, retryable_status_codes, retryable_exceptions) ==
    [max_attempts |-> max_attempts,
     retryable_status_codes |-> retryable_status_codes,
     retryable_exceptions |-> retryable_exceptions]

\* should_retry(exception, response, config), exception being an exception
\* object (always true in "if exception:")
should_retry(exception, response, config) ==
    \E exc_type \in config.retryable_exceptions : IsInstance(exception, exc_type)

\* the outcomes of one call of the wrapped function: "ok", or an exception
Outcomes ==
    {Raised("ok", NoResponse), Raised("ConnectTimeout", NoResponse),
     Raised("ConnectError", NoResponse), Raised("ValueError", NoResponse),
     Raised("HTTPStatusError", 503), Raised("HTTPStatusError", 404)}

\* retry_async: one iteration of "for attempt in range(config.max_attempts)"
RetryAttempt(outcome) ==
    /\ call_result.op = "retry_async"
    /\ call_result.attempt < call_result.config.max_attempts
    /\ call_result' =
          LET called == [call_result EXCEPT !.calls = @ + 1]
          IN  IF outcome.type = "ok"
              THEN [called EXCEPT !.op = "retry_async returned"]
              ELSE IF ~should_retry(outcome, outcome.status_code, call_result.config)
              THEN [called EXCEPT !.op = "retry_async raised", !.last_exception = outcome]
              ELSE IF call_result.attempt >= call_result.config.max_attempts - 1
              THEN [called EXCEPT !.op = "retry_async raised RetryExhaustedError",
                                  !.last_exception = outcome]
              ELSE [called EXCEPT !.attempt = @ + 1, !.last_exception = outcome]

\* retry_async with an empty range: the loop body never runs
RetryWithoutAttempt ==
    /\ call_result.op = "retry_async"
    /\ call_result.attempt >= call_result.config.max_attempts
    /\ call_result' = [call_result EXCEPT !.op = "retry_async raised RetryExhaustedError"]

\* largest max_attempts of a configuration
MaxAttempts == 3

\* retry_async entered with a configuration
InitRetryCall ==
    call_result \in
        {[op |-> "retry_async", config |-> RetryConfig(n, codes, excs), attempt |-> 0,
          calls |-> 0, last_exception |-> Raised("None", NoResponse)] :
            n \in 0..MaxAttempts,
            codes \in {DefaultRetryableStatusCodes, {404}},
            excs \in {DefaultRetryableExceptions, {"HTTPStatusError"}, {}}}

\* the state of the components below the engine's own
restvars == <<gaapvars, convvars, validatorvars, trailvars, oversightvars, callvars>>
\* the components below the engine, as constructed
InitComponents ==
    InitGAAP /\ InitConverter /\ InitValidator /\ InitTrail /\ InitOversight
InitRest == InitComponents /\ InitCalls

\* all the state of the components
vars == <<fxvars, ppavars, matchvars, enginevars, restvars>>

\* ------------------------------------------------------------------ C2
GoodwillFormula(pp, fv, intangibles) == pp - fv - SumValues(intangibles)

\* C2 as claimed: every create_ppa call with a positive purchase price, a
\* positive fair value of net assets and a period for every intangible is
\* accepted and stores goodwill = purchase_price - fair_value_net_assets
\* - sum(intangibles), also when that is zero or negative; and validate_ppa
\* rejects a PPA whose goodwill is off the formula by more than 0.01.
C2_GoodwillFormulaStored ==
    /\ (/\ ppa_result.op \in {"create_ppa", "create_ppa raised ValueError"}
        /\ ppa_result.purchase_price > 0
        /\ ppa_result.fair_value_net_assets > 0
        /\ DOMAIN ppa_result.intangibles \subseteq DOMAIN ppa_result.periods)
       => /\ ppa_result.op = "create_ppa"
          /\ ppas[Len(ppas)].goodwill =
                GoodwillFormula(ppa_result.purchase_price, ppa_result.fair_value_net_assets,
                                ppa_result.intangibles)
    /\ \A i \in 1..Len(ppas) : \A off \in {-2, 2} :
          validate_ppa([ppas[i] EXCEPT !.goodwill =
              GoodwillFormula(ppas[i].purchase_price, ppas[i].fair_value_net_assets,
                              ppas[i].intangible_assets) + off]) # {}

\* ------------------------------------------------------------------ C4
\* the rounding of the one division fair_value / total_months, carried by
\* n entries
WithinRoundingOf(x, n) == 2 * Abs(x) <= n

\* C4 as claimed: for every intangible of a created PPA with a useful life
\* of L years, the schedule create_ppa generated is a straight line of
\* fair_value / (L * 12) whose monthly amortizations sum to the fair value,
\* with accumulated + remaining = fair value in every entry and remaining
\* 0 (within rounding) in the last entry.
C4_ScheduleCoversFairValue ==
    \A i \in 1..Len(ppas) : \A n \in DOMAIN ppas[i].intangible_assets :
        (n \in DOMAIN ppas[i].amortization_schedule /\ ppas[i].amortization_schedule[n] >= 1) =>
            LET value == ppas[i].intangible_assets[n] * RateScale
                L == ppas[i].amortization_schedule[n]
                sched == schedules[i][n]
            IN  /\ Len(sched) >= 1
                /\ \A j \in 1..Len(sched) :
                      /\ sched[j].monthly_amortization = DivRound(value, L * MonthsPerYear)
                      /\ sched[j].accumulated_amortization + sched[j].remaining_value = value
                /\ WithinRoundingOf(Len(sched) * sched[1].monthly_amortization - value, Len(sched))
                /\ WithinRoundingOf(sched[Len(sched)].remaining_value, Len(sched))


\* ------------------------------------------------------------------ C5
\* the pairs of different entities of the returned call
CrossEntityPairs ==
    {p \in {<<match_result.receivables[i], match_result.payables[j]>> :
               i \in 1..Len(match_result.receivables),
               j \in 1..Len(match_result.payables)} :
        p[1].entity_id # p[2].entity_id}

\* a's amount in fine units, converted with the supplied rate when the two
\* currencies differ
ConvertedForMatch(a, b, fx_rates) ==
    IF a.currency # b.currency
    THEN amount_functional(a) * fx_rates[<<a.currency, b.currency>>]
    ELSE amount_functional(a) * RateScale

\* a pair the claim speaks of: same currency, or a rate supplied for it
RateSupplied(a, b, fx_rates) ==
    a.currency = b.currency \/ <<a.currency, b.currency>> \in DOMAIN fx_rates

\* C5 as claimed: a receivable a and a payable b of different entities are
\* accepted exactly when |a_converted - b| <= tolerance_percentage * b.
C5_ToleranceOfPayable ==
    match_result.op = "match_receivables_payables" =>
        \A p \in CrossEntityPairs :
            RateSupplied(p[1], p[2], match_result.fx_rates) =>
                (is_matching_pair(p[1], p[2], match_result.fx_rates)[1]
                 <=> Abs(ConvertedForMatch(p[1], p[2], match_result.fx_rates)
                         - amount_functional(p[2]) * RateScale) * TolerancePctDen
                       <= amount_functional(p[2]) * RateScale * TolerancePctNum)

\* C5 amended: with different currencies and a supplied rate the pair is
\* accepted exactly when |a * rate - b| <= tolerance_percentage * b; with
\* equal currencies exactly when |a - b| <= tolerance_percentage * max(a, b).
\* A call with one receivable and one payable returns a match exactly then.
C5_ToleranceByCase ==
    match_result.op = "match_receivables_payables" =>
        /\ \A p \in CrossEntityPairs :
              RateSupplied(p[1], p[2], match_result.fx_rates) =>
                (is_matching_pair(p[1], p[2], match_result.fx_rates)[1]
                 <=> Abs(ConvertedForMatch(p[1], p[2], match_result.fx_rates)
                         - amount_functional(p[2]) * RateScale) * TolerancePctDen
                       <= (IF p[1].currency # p[2].currency
                           THEN amount_functional(p[2])
                           ELSE Max(amount_functional(p[1]), amount_functional(p[2])))
                          * RateScale * TolerancePctNum)
        /\ (Len(match_result.receivables) = 1 /\ Len(match_result.payables) = 1) =>
              (Len(match_result.result.matches) = 1
               <=> /\ CrossEntityPairs # {}
                   /\ is_matching_pair(match_result.receivables[1], match_result.payables[1],
                                        match_result.fx_rates)[1])

\* a same-currency pair accepted although it is more than 1% of the payable
\* apart, and a cross-currency pair accepted on the converted amount
C5_Witness ==
    /\ match_result.op = "match_receivables_payables"
    /\ Len(match_result.result.matches) = 2
    /\ \E i, j \in 1..2 :
          /\ match_result.result.matches[i].currency_a = match_result.result.matches[i].currency_b
          /\ match_result.result.matches[i].amount_entity_a = 100
          /\ match_result.result.matches[i].amount_entity_b = 99
          /\ match_result.result.matches[j].currency_a # match_result.result.matches[j].currency_b
          /\ match_result.result.matches[j].fx_gain_loss # 0

\* ------------------------------------------------------------------ C1
\* the result consolidate() returned
Returned == run.consolidated

\* C1: every result consolidate() returns has is_balanced = true exactly when
\* |total_assets - (total_liabilities + total_equity)| <= 0.01, and
\* BalanceSheetBalanceRule with its default tolerance passes on exactly those
\* results; a result that violates the equation is returned with is_balanced
\* false and a non-empty validation_errors.
C1_BalancedIffWithinTolerance ==
    run.phase = "COMPLETE" =>
        /\ Returned.is_balanced <=> BalanceDifference(Returned) <= CentTolerance * RateScale
        /\ BalanceSheetBalanceRule(Returned) <=> Returned.is_balanced
        /\ BalanceDifference(Returned) > CentTolerance * RateScale =>
              /\ ~Returned.is_balanced
              /\ Returned.validation_errors # <<>>

\* a returned result that is off by a cent or less, and balanced
C1_Witness ==
    /\ run.phase = "COMPLETE"
    /\ Returned.total_assets > 0
    /\ BalanceDifference(Returned) > 0
    /\ Returned.is_balanced
    /\ BalanceSheetBalanceRule(Returned)

\* ------------------------------------------------------------------ C6
\* the sum of the elimination amounts of the eliminations of one type
EliminatedOfType(elims, type) ==
    SumSeq([i \in 1..Len(elims) |->
               IF elims[i].intercompany_transaction.elimination_type = type
               THEN elims[i].elimination_amount ELSE 0])

\* C6: in a consolidate() run every RECEIVABLE_PAYABLE elimination made with
\* the receivable/payable account names (here the fallback names) lowers
\* total_assets and total_liabilities by its amount, and every
\* REVENUE_EXPENSE elimination lowers total_revenue and total_expenses by its
\* amount.
C6_EliminationsReduceBuckets ==
    run.phase \in {"AGGREGATED", "VALIDATED", "COMPLETE"} =>
        /\ run.consolidated.total_assets =
              EntriesTotal(run.converted, "total_assets")
              - EliminatedOfType(run.eliminations, "AR_AP")
        /\ run.consolidated.total_liabilities =
              EntriesTotal(run.converted, "total_liabilities")
              - EliminatedOfType(run.eliminations, "AR_AP")
        /\ run.consolidated.total_revenue =
              EntriesTotal(run.converted, "total_revenue")
              - EliminatedOfType(run.eliminations, "REV_EXP")
        /\ run.consolidated.total_expenses =
              EntriesTotal(run.converted, "total_expenses")
              - EliminatedOfType(run.eliminations, "REV_EXP")
              + SumSeq([i \in 1..Len(run.ppa_entries) |->
                           run.ppa_entries[i].monthly_amortization])

\* ------------------------------------------------------------------ C8
\* consolidate() on a new engine from the conversion's outcome c and the
\* eliminations created on
FirstRunResult(c, created, period_end_date) ==
    IF c.raised THEN [raised |-> TRUE]
    ELSE [raised |-> FALSE,
          consolidated |->
              validate_balance(
                  aggregate_consolidated_financials(c.converted,
                      ReturnedEliminations(created, created),
                      apply_ppa_amortization(entities, period_end_date),
                      period_end_date, entities, c.cta))]

\* what consolidate(period_end_date, period_start_date, chart_of_accounts)
\* gives as the first call on a new engine that holds the entities, trial
\* balances, rates and PPAs of this one
FirstRun(period_end_date, period_start_date, chart_of_accounts) ==
    FirstRunResult(convert_all_trial_balances(trial_balances, period_start_date, <<>>),
                   perform_eliminations(entities, trial_balances, period_end_date,
                                        chart_of_accounts),
                   period_end_date)

\* the first run with the arguments of the call that just returned
FirstRunOfCall == FirstRun(run.period_end_date, run.period_start_date, run.chart_of_accounts)

\* the totals of a result other than total_cta
TotalsOf(c) ==
    <<c.total_assets, c.total_liabilities, c.total_equity, c.total_revenue,
      c.total_expenses, c.net_income>>

\* every consolidate() call made so far on the engine has returned
AllCallsReturned == CountAction("START_CONSOLIDATION") = CountAction("COMPLETE_CONSOLIDATION")

\* C8 as stated: the totals, total_cta among them, and the eliminations that
\* consolidate() returns after earlier successful calls are those of a first
\* call on a new engine with the same inputs.
C8_SameAsFirstRun ==
    (run.phase = "COMPLETE" /\ AllCallsReturned) =>
        /\ ~FirstRunOfCall.raised
        /\ TotalsOf(Returned) = TotalsOf(FirstRunOfCall.consolidated)
        /\ Returned.total_cta = FirstRunOfCall.consolidated.total_cta
        /\ Returned.eliminations = FirstRunOfCall.consolidated.eliminations

\* C8 amended: total_assets, total_liabilities, total_equity, total_revenue,
\* total_expenses, net_income and the eliminations that consolidate() returns
\* are those of a first call on a new engine with the same inputs, whatever
\* calls were made before (total_cta is left out: it is the converter's
\* running balance).
C8_SameTotalsAsFirstRun ==
    run.phase = "COMPLETE" =>
        /\ ~FirstRunOfCall.raised
        /\ TotalsOf(Returned) = TotalsOf(FirstRunOfCall.consolidated)
        /\ Returned.eliminations = FirstRunOfCall.consolidated.eliminations

\* a second successful call that returns eliminations and a total_cta other
\* than a first call's
C8_Witness ==
    /\ run.phase = "COMPLETE"
    /\ AllCallsReturned
    /\ CountAction("COMPLETE_CONSOLIDATION") = 2
    /\ Returned.eliminations # <<>>
    /\ Returned.total_revenue # EntriesTotal(run.converted, "total_revenue")
    /\ Returned.total_cta # FirstRunOfCall.consolidated.total_cta

\* ------------------------------------------------------------------ C9
\* C9: when consolidate() fails because an FX rate is missing, the audit log
\* is the only engine state the call changed: the registered entities, the
\* loaded trial balances, the rate table, the converter's CTA balances and the
\* recorded eliminations are those of before the call.
C9_FailureLeavesOnlyAuditLog ==
    [][(run.phase = "STARTED" /\ run'.phase = "RAISED") =>
          /\ entities' = entities
          /\ trial_balances' = trial_balances
          /\ rates' = rates
          /\ cta_balances' = cta_balances
          /\ eliminations' = eliminations]_vars

\* ------------------------------------------------------------------ C10
\* the audit entries of the consolidate() call made last
LastCallLog ==
    LET starts == {i \in 1..Len(audit_log) : audit_log[i].action = "START_CONSOLIDATION"}
        first == CHOOSE i \in starts : \A j \in starts : j <= i
    IN  SubSeq(audit_log, first, Len(audit_log))

\* the place of an audit action in a consolidate() call
StageOf(action) ==
    CASE action = "START_CONSOLIDATION" -> 0
      [] action = "CONVERT_CURRENCY" -> 1
      [] action = "CREATE_ELIMINATIONS" -> 2
      [] action = "APPLY_PPA" -> 3
      [] action = "VALIDATION_ERROR" -> 4
      [] action = "COMPLETE_CONSOLIDATION" -> 5

\* a call that returned performed the five steps once each, in order, and
\* logged them in order
StepsInOrder ==
    run.phase = "COMPLETE" =>
        /\ run.steps = <<"conversion", "elimination", "ppa application", "aggregation",
                         "validation">>
        /\ \A i, j \in 1..Len(LastCallLog) :
              i < j => StageOf(LastCallLog[i].action) <= StageOf(LastCallLog[j].action)
        /\ LastCallLog[1].action = "START_CONSOLIDATION"
        /\ LastCallLog[Len(LastCallLog)].action = "COMPLETE_CONSOLIDATION"
        /\ Cardinality({i \in 1..Len(LastCallLog) :
                           LastCallLog[i].action = "CREATE_ELIMINATIONS"}) = 1

\* C10: the run states are visited in the order REGISTERED_ENTITIES,
\* LOADED_BALANCES, CONVERTED, ELIMINATED, PPA_APPLIED, AGGREGATED, VALIDATED,
\* COMPLETE with none skipped: a call is past conversion only on an engine
\* with registered entities and loaded trial balances, and a call that
\* returned performed conversion, elimination, PPA application, aggregation
\* and validation once each in that order, its audit entries in that order.
C10_RunStatesInOrder ==
    /\ run.phase \in {"CONVERTED", "ELIMINATED", "PPA_APPLIED", "AGGREGATED", "VALIDATED",
                      "COMPLETE"} =>
          /\ entities # <<>>
          /\ trial_balances # <<>>
    /\ StepsInOrder

\* ------------------------------------------------------------------ C11
\* the entries convert_trial_balance_entry is considered for: every account
\* type in either currency, for either entity
ConverterEntries ==
    {TBEntry("x", id, 2, "Account", at, 50, 0, cur, "") :
        id \in EntityIds, at \in AccountType, cur \in Currency}

\* the rate manager resolves no rate for the pair, date and rate type the
\* entry requires
NoRateResolves(entry, period_start_date) ==
    /\ entry.currency # presentation_currency
    /\ CASE entry.account_type \in {"INCOME", "EXPENSE"} ->
              get_average_rate(entry.currency, presentation_currency, period_start_date,
                               entry.period_end_date) = NoRate
         [] entry.account_type = "EQUITY_TXN" ->
              get_rate(entry.currency, presentation_currency, entry.period_end_date,
                       "HISTORICAL") = NoRate
         [] OTHER ->
              get_rate(entry.currency, presentation_currency, entry.period_end_date,
                       "CLOSING") = NoRate

\* the entries loaded in the engine
LoadedEntries == {Flatten(trial_balances)[i] : i \in 1..Len(Flatten(trial_balances))}

\* C11: convert_trial_balance_entry raises ValueError whenever no rate
\* resolves for a foreign-currency entry; it then returns no ConvertedEntry
\* and leaves the CTA balances as they were; and a consolidate() call in which
\* that happens raises and returns no result, while a call that got past
\* conversion had a rate for every loaded entry.
C11_MissingRateRaises ==
    /\ \A entry \in ConverterEntries \cup LoadedEntries : \A ps \in PeriodStarts :
          NoRateResolves(entry, ps) =>
              /\ convert_trial_balance_entry(entry, ps, cta_balances).raised
              /\ convert_trial_balance_entry(entry, ps, cta_balances).converted = NoRate
              /\ convert_trial_balance_entry(entry, ps, cta_balances).cta = cta_balances
    /\ run.phase = "RAISED" =>
          /\ run.consolidated = NoConsolidated
          /\ run.converted = <<>>
          /\ \E entry \in LoadedEntries : NoRateResolves(entry, run.period_start_date)
    /\ run.phase \in {"CONVERTED", "ELIMINATED", "PPA_APPLIED", "AGGREGATED", "VALIDATED",
                      "COMPLETE"} =>
          \A entry \in LoadedEntries : ~NoRateResolves(entry, run.period_start_date)

\* a consolidate() call that raised on a loaded foreign-currency entry
\* without a rate
C11_Witness ==
    /\ run.phase = "RAISED"
    /\ \E entry \in LoadedEntries : NoRateResolves(entry, run.period_start_date)

\* ------------------------------------------------------------------ C12
\* the rate value the documented precedence gives for different currencies
\* (0: None): the stored (A, B, d, t) rate, else the inverse of the stored
\* (B, A, d, t) rate, else the stored (A, B, d - k, t) rate of the smallest k
\* in 1..7
DocumentedRate(A, B, d, t) ==
    IF rates[<<A, B, d, t>>] # 0 THEN rates[<<A, B, d, t>>]
    ELSE IF rates[<<B, A, d, t>>] # 0
         THEN DivRound(RateScale * RateScale, rates[<<B, A, d, t>>])
    ELSE LET back == {k \in 1..LookbackDays :
                         d - k \in Dates /\ rates[<<A, B, d - k, t>>] # 0}
         IN  IF back = {} THEN 0
             ELSE rates[<<A, B, d - (CHOOSE k \in back : \A j \in back : k <= j), t>>]

\* the answer of the get_rate call just made is the documented one, stamped
\* with the requested date, and rests on no rate dated after d or more than
\* 7 days before d
DocumentedAnswer ==
    LET A == fx_result.from
        B == fx_result.to
        d == fx_result.d
        t == fx_result.t
    IN  IF A = B THEN fx_result.result.rate = RateScale
        ELSE /\ fx_result.result.rate = DocumentedRate(A, B, d, t)
             /\ fx_result.result # NoRate =>
                   /\ fx_result.result.rate_date = d
                   /\ fx_result.result.from_currency = A
                   /\ fx_result.result.to_currency = B
                   /\ \E dd \in Dates :
                         /\ d - LookbackDays <= dd /\ dd <= d
                         /\ rates[<<A, B, dd, t>>] # 0 \/ (dd = d /\ rates[<<B, A, d, t>>] # 0)

\* C12: get_rate(A, B, d, t) answers by the precedence stored rate, inverse
\* of the reverse rate, nearest stored rate of the 7 days before d (stamped
\* d), None; it answers rate 1 for A = B whatever the table holds; and the
\* call leaves the stored rate table as it was.
C12_LookupPrecedence ==
    [][fx_result'.op = "get_rate" => (rates' = rates /\ DocumentedAnswer')]_vars

\* a lookup answered from an earlier day while a later-dated rate of the
\* pair is stored
C12_Witness ==
    /\ fx_result.op = "get_rate"
    /\ fx_result.from # fx_result.to
    /\ fx_result.result # NoRate
    /\ rates[<<fx_result.from, fx_result.to, fx_result.d, fx_result.t>>] = 0
    /\ rates[<<fx_result.to, fx_result.from, fx_result.d, fx_result.t>>] = 0
    /\ \E later \in Dates :
          /\ later > fx_result.d
          /\ rates[<<fx_result.from, fx_result.to, later, fx_result.t>>]
                \notin {0, fx_result.result.rate}

\* ------------------------------------------------------------------ C13
\* ifrs_net_income + sum(adjustments) == us_gaap_net_income
Reconciles(r) == r.ifrs_net_income + SumValues(r.adjustments) = r.us_gaap_net_income

\* C13: every GAAPReconciliation that create_reconciliation returned or
\* recorded satisfies ifrs_net_income + sum(adjustments) = us_gaap_net_income;
\* one that is off by more than 0.01 is neither returned nor recorded, the
\* call raises ValueError instead.
C13_ReconciliationBalances ==
    /\ \A i \in 1..Len(reconciliations) : Reconciles(reconciliations[i])
    /\ gaap_result.op = "create_reconciliation" =>
          /\ Reconciles(gaap_result.returned)
          /\ reconciliations[Len(reconciliations)] = gaap_result.returned
          /\ gaap_result.returned.ifrs_net_income = gaap_result.ifrs_net_income
          /\ gaap_result.returned.adjustments = gaap_result.adjustments
    /\ gaap_result.op = "create_reconciliation raised ValueError" =>
          /\ ~Reconciles(gaap_result.returned)
          /\ \A i \in 1..Len(reconciliations) : reconciliations[i] # gaap_result.returned

\* a recorded reconciliation whose adjustments sum to one cent
C13_Witness ==
    /\ gaap_result.op = "create_reconciliation"
    /\ Abs(SumValues(gaap_result.adjustments)) = CentTolerance
    /\ Len(reconciliations) = 2
    /\ reconciliations[1].us_gaap_net_income # reconciliations[1].ifrs_net_income

\* ------------------------------------------------------------------ C14
\* the converter call just made was a conversion of an entry in the
\* presentation currency
SameCurrencyCall ==
    /\ conv_result.op = "convert_trial_balance_entry"
    /\ conv_result.entry.currency = presentation_currency

\* C14: for an entry of any account type in the presentation currency,
\* convert_trial_balance_entry returns a ConvertedEntry with converted_amount
\* = net_amount and fx_rate.rate = 1, whatever the rate table holds (also
\* nothing), and changes no CTA balance.
C14_SameCurrencyNoOp ==
    SameCurrencyCall =>
        /\ ~conv_result.raised
        /\ conv_result.converted.converted_amount =
              (conv_result.entry.debit_amount - conv_result.entry.credit_amount) * RateScale
        /\ conv_result.converted.fx_rate.rate = RateScale
        /\ conv_result.converted.original_entry = conv_result.entry
        /\ cta_balances = conv_result.cta_before

\* a presentation-currency balance-sheet entry converted on an empty rate
\* table, after a conversion that left a CTA balance
C14_Witness ==
    /\ SameCurrencyCall
    /\ conv_result.entry.account_type = "BS_LIABILITY"
    /\ StoredKeys = {}
    /\ conv_result.converted.converted_amount < 0

\* ------------------------------------------------------------------ C15
\* the converter call just made converted an entry of another currency
ForeignConversion ==
    /\ conv_result.op = "convert_trial_balance_entry"
    /\ conv_result.entry.currency # presentation_currency
    /\ ~conv_result.raised

\* the rate the rate manager gives for the entry's account type: the average
\* over [period_start, entry.period_end_date] for INCOME and EXPENSE, the
\* HISTORICAL rate for EQUITY_TXN, the CLOSING rate at entry.period_end_date
\* for the balance-sheet types
RateByAccountType(entry, period_start_date) ==
    CASE entry.account_type \in {"INCOME", "EXPENSE"} ->
            get_average_rate(entry.currency, presentation_currency, period_start_date,
                             entry.period_end_date)
      [] entry.account_type = "EQUITY_TXN" ->
            get_rate(entry.currency, presentation_currency, entry.period_end_date,
                     "HISTORICAL")
      [] entry.account_type \in {"BS_ASSET", "BS_LIABILITY", "BS_EQUITY"} ->
            get_rate(entry.currency, presentation_currency, entry.period_end_date,
                     "CLOSING")

\* C15: a converted entry of a non-presentation currency carries the rate
\* its account type selects (INCOME/EXPENSE the period average, EQUITY_TXN
\* the HISTORICAL rate, BS_ASSET/BS_LIABILITY/BS_EQUITY the CLOSING rate), and
\* its converted_amount is net_amount times that rate.
C15_RateByAccountType ==
    ForeignConversion =>
        /\ conv_result.converted.fx_rate =
              RateByAccountType(conv_result.entry, conv_result.period_start_date)
        /\ conv_result.converted.converted_amount =
              (conv_result.entry.debit_amount - conv_result.entry.credit_amount)
              * RateByAccountType(conv_result.entry, conv_result.period_start_date).rate

\* an INCOME entry converted at a period average that is neither the closing
\* nor the historical rate of its date
C15_Witness ==
    /\ ForeignConversion
    /\ conv_result.entry.account_type = "INCOME"
    /\ conv_result.converted.converted_amount < 0
    /\ conv_result.converted.fx_rate.rate #
          get_rate(conv_result.entry.currency, presentation_currency,
                   conv_result.entry.period_end_date, "CLOSING").rate

\* ------------------------------------------------------------------ C16
\* the entry of list with the given entry_id
LegOf(list, entry_id) ==
    list[CHOOSE i \in 1..Len(list) : list[i].entry_id = entry_id]

\* the MATCH_INTERCOMPANY entries of the matcher's log, one per matched pair
MatchedPairs ==
    SelectSeq(match_result.result.log, LAMBDA l : l.action = "MATCH_INTERCOMPANY")

\* C16: each receivable/payable pair the matcher matched gets exactly one
\* EliminationEntry, whose elimination_amount is the arithmetic mean of the
\* two legs' amounts and so lies between them, inclusive.
C16_EliminationIsMean ==
    match_result.op = "create_all_eliminations" =>
        /\ Len(match_result.eliminations) = Len(MatchedPairs)
        /\ \A i \in 1..Len(MatchedPairs) :
              LET a == amount_functional(LegOf(match_result.receivables, MatchedPairs[i].ar))
                  b == amount_functional(LegOf(match_result.payables, MatchedPairs[i].ap))
                  e == match_result.eliminations[i]
              IN  /\ e.intercompany_transaction = match_result.result.matches[i]
                  /\ e.intercompany_transaction.amount_entity_a = a
                  /\ e.intercompany_transaction.amount_entity_b = b
                  /\ 2 * e.elimination_amount = (a + b) * RateScale
                  /\ Min(a, b) * RateScale <= e.elimination_amount
                  /\ e.elimination_amount <= Max(a, b) * RateScale

\* the receivable of 103 and the payable of 102 of one currency matched and
\* eliminated at 102.5
C16_Witness ==
    /\ match_result.op = "create_all_eliminations"
    /\ \E i \in 1..Len(MatchedPairs) :
          /\ MatchedPairs[i].ar = "r5" /\ MatchedPairs[i].ap = "p5"
          /\ match_result.eliminations[i].elimination_amount = 102500
          /\ Len(match_result.eliminations) = Len(MatchedPairs)

\* ------------------------------------------------------------------ C17
\* the entity ids holding or asked for a balance
CtaIds == DOMAIN conv_result.cta_before \cup DOMAIN cta_balances \cup ConverterEntityIds

\* C17: a conversion changes the CTA balances only for a BS_ASSET or
\* BS_LIABILITY entry of a non-presentation currency, and then only the
\* balance of entry.entity_id; get_total_cta(e) returns entity e's balance
\* for every entity id e and get_total_cta(None) the sum over all entities;
\* reset_cta(e) zeroes only e's balance and reset_cta() clears all balances.
C17_CtaPerEntity ==
    /\ conv_result.op = "convert_trial_balance_entry" =>
          \A id \in CtaIds :
              CtaGet(cta_balances, id) # CtaGet(conv_result.cta_before, id) =>
                  /\ conv_result.entry.account_type \in {"BS_ASSET", "BS_LIABILITY"}
                  /\ conv_result.entry.currency # presentation_currency
                  /\ id = conv_result.entry.entity_id
    /\ conv_result.op = "get_total_cta" =>
          conv_result.value =
              IF conv_result.entity_id = NoneId THEN get_total_cta(conv_result.cta_before)
              ELSE CtaGet(conv_result.cta_before, conv_result.entity_id)
    /\ conv_result.op = "reset_cta" =>
          IF conv_result.entity_id = NoneId THEN DOMAIN cta_balances = {}
          ELSE \A id \in CtaIds :
                  CtaGet(cta_balances, id) =
                      IF id = conv_result.entity_id THEN 0
                      ELSE CtaGet(conv_result.cta_before, id)

\* ------------------------------------------------------------------ C18
\* the rules of the validator failing on c
FailingRules(c) == SelectSeq(validator_rules, LAMBDA rule : ~Validate(rule, c).is_valid)

\* the entries validate_all lists for the failing rules of one severity,
\* in rule order
ListedUnder(severity, c) ==
    LET failing == SelectSeq(FailingRules(c), LAMBDA rule : rule.severity = severity)
    IN  [i \in 1..Len(failing) |-> <<failing[i].rule_id, Validate(failing[i], c).message>>]

IsPrefix(log, longer) ==
    /\ Len(log) <= Len(longer)
    /\ \A i \in 1..Len(log) : longer[i] = log[i]

\* C19: over register_entity, load_trial_balance and consolidate calls,
\* raising ones included, the audit log before a step is a prefix of the log
\* after it (nothing removed or replaced); get_consolidation_audit_trail
\* returns the log's entries in a list of its own, so a caller altering that
\* list leaves the engine's log as it was.
C19_AuditLogOnlyGrows ==
    [][/\ IsPrefix(audit_log, audit_log')
       /\ audit_trail' # audit_trail =>
             /\ audit_log' = audit_log
             /\ audit_trail'.op = "get_consolidation_audit_trail" =>
                   audit_trail'.list = audit_log]_vars

\* after a consolidate() call that raised, a caller cleared the list it got
\* and the engine's log still holds its entries
C19_Witness ==
    /\ audit_trail.op = "clear"
    /\ audit_trail.list = <<>>
    /\ run.phase = "RAISED"
    /\ Len(audit_log) > 2

\* ------------------------------------------------------------------ C20
\* the distinct reviewers of a request
ReviewersOf(request) ==
    {request.actual_reviewers[i] : i \in 1..Len(request.actual_reviewers)}

\* the places of the request id in review_history
HistoryPlaces(history, request_id) ==
    {i \in 1..Len(history) : history[i].request_id = request_id}

\* a submit_review step on a pending request that requires two reviewers:
\* with fewer than two distinct reviewers after it the request stays
\* pending and in review_requests; with two it leaves review_requests and is
\* appended to review_history with the submitted decision as its status
TwoReviewerStep ==
    LET id == oversight_result'.request_id
        before == review_requests[id]
        after == ReviewersOf(before) \cup {oversight_result'.reviewer_id}
    IN  /\ ~oversight_result'.raised
        /\ IF Cardinality(after) < 2
           THEN /\ id \in DOMAIN review_requests'
                /\ review_requests'[id].status = "pending"
                /\ ReviewersOf(review_requests'[id]) = after
                /\ review_history' = review_history
           ELSE /\ id \notin DOMAIN review_requests'
                /\ Len(review_history') = Len(review_history) + 1
                /\ SubSeq(review_history', 1, Len(review_history)) = review_history
                /\ review_history'[Len(review_history')].request_id = id
                /\ review_history'[Len(review_history')].status = oversight_result'.decision
                /\ ReviewersOf(review_history'[Len(review_history')]) = after

\* C20: a request that requires two reviewers stays "pending" and in
\* review_requests until two distinct reviewer ids have submitted a review,
\* repeated submissions of one reviewer counting once; the completing
\* submission gives it its decision as status and moves it to
\* review_history, where it is found exactly once; submit_review for its id
\* raises ValueError from then on and changes nothing.
C20_FourEyes ==
    [][oversight_result'.op = "submit_review" =>
          LET id == oversight_result'.request_id
          IN  /\ (id \in DOMAIN review_requests /\ review_requests[id].required_reviewers = 2)
                    => TwoReviewerStep
              /\ HistoryPlaces(review_history, id) # {} =>
                    /\ oversight_result'.raised
                    /\ review_history' = review_history
                    /\ review_requests' = review_requests
              /\ \A r \in DOMAIN review_requests' \cup
                          {review_history'[i].request_id : i \in 1..Len(review_history')} :
                    Cardinality(HistoryPlaces(review_history', r))
                        = IF r \in DOMAIN review_requests' THEN 0 ELSE 1]_vars

\* a request of two reviewers, reviewed by one and then rejected by the
\* other, is in the history as rejected and a further review of it raised
C20_Witness ==
    /\ oversight_result.op = "submit_review"
    /\ oversight_result.raised
    /\ \E i \in 1..Len(review_history) :
          /\ review_history[i].request_id = oversight_result.request_id
          /\ review_history[i].required_reviewers = 2
          /\ review_history[i].status = "rejected"
          /\ review_history[i].actual_reviewers = <<"reviewer_2", "reviewer_1">>

\* ------------------------------------------------------------------ C21
\* the matches of the returned matcher call as pairs of list positions
\* <<receivable, payable>>, in the order of the result
MatchedPositions ==
    [i \in 1..Len(MatchedPairs) |->
        <<CHOOSE k \in 1..Len(match_result.receivables) :
              match_result.receivables[k].entry_id = MatchedPairs[i].ar,
          CHOOSE k \in 1..Len(match_result.payables) :
              match_result.payables[k].entry_id = MatchedPairs[i].ap>>]

\* the payable positions taken by the receivables before position i
TakenBefore(i) ==
    {MatchedPositions[m][2] : m \in {n \in 1..Len(MatchedPositions) : MatchedPositions[n][1] < i}}

\* the payables receivable i may still take: not taken by an earlier
\* receivable, of another entity, within tolerance
CandidatesOf(i) ==
    {j \in 1..Len(match_result.payables) :
        /\ j \notin TakenBefore(i)
        /\ match_result.payables[j].entity_id # match_result.receivables[i].entity_id
        /\ is_matching_pair(match_result.receivables[i], match_result.payables[j],
                            match_result.fx_rates)[1]}

\* the UNMATCHED_INTERCOMPANY entries of the matcher's log
UnmatchedLogged ==
    SelectSeq(match_result.result.log, LAMBDA l : l.action = "UNMATCHED_INTERCOMPANY")

JoinKey(e) == IF e.description = "" THEN e.account_code ELSE e.description

\* a parent-subsidiary relationship is registered between a and b, in
\* either direction
Registered(a, b, relationships) ==
    \E id \in DOMAIN relationships :
        \/ id = a /\ relationships[id] = b
        \/ id = b /\ relationships[id] = a

\* the <<revenue, expense>> positions of the call that are to be matched
QualifyingPairs ==
    {p \in (1..Len(match_result.revenues)) \X (1..Len(match_result.expenses)) :
        /\ JoinKey(match_result.revenues[p[1]]) = JoinKey(match_result.expenses[p[2]])
        /\ Registered(match_result.revenues[p[1]].entity_id,
                      match_result.expenses[p[2]].entity_id, match_result.relationships)}

\* the returned transactions that pair revenue rev with expense exp
TransactionsOf(rev, exp) ==
    {k \in 1..Len(match_result.result) :
        /\ match_result.result[k].elimination_type = "REV_EXP"
        /\ match_result.result[k].entity_a_id = rev.entity_id
        /\ match_result.result[k].entity_b_id = exp.entity_id
        /\ match_result.result[k].amount_entity_a = Abs(rev.debit_amount - rev.credit_amount)
        /\ match_result.result[k].amount_entity_b = Abs(exp.debit_amount - exp.credit_amount)
        /\ match_result.result[k].reference_number = JoinKey(rev)}

\* C22: match_revenues_expenses returns one REVENUE_EXPENSE transaction for
\* exactly each (revenue, expense) pair with equal join keys and a
\* registered parent-subsidiary relationship in either direction, whatever
\* the two amounts; no other pair is matched.
C22_RevenueExpenseJoin ==
    match_result.op = "match_revenues_expenses" =>
        /\ Len(match_result.result) = Cardinality(QualifyingPairs)
        /\ \A p \in (1..Len(match_result.revenues)) \X (1..Len(match_result.expenses)) :
              Cardinality(TransactionsOf(match_result.revenues[p[1]],
                                         match_result.expenses[p[2]]))
                  = IF p \in QualifyingPairs THEN 1 ELSE 0

\* the parent's revenue of 50 matched with the subsidiary's expense of 25,
\* and the subsidiary's revenue with the parent's expense of 999 on the
\* account code
C22_Witness ==
    /\ match_result.op = "match_revenues_expenses"
    /\ Len(match_result.result) = 2
    /\ \E k \in 1..2 :
          /\ match_result.result[k].entity_a_id = "E1"
          /\ match_result.result[k].amount_entity_a = 50
          /\ match_result.result[k].amount_entity_b = 25
    /\ \E k \in 1..2 :
          /\ match_result.result[k].entity_a_id = "E2"
          /\ match_result.result[k].amount_entity_b = 999
          /\ match_result.result[k].reference_number = "4000"

\* ------------------------------------------------------------------ C23
\* the signed converted amounts of the entries of the account types
SignedOfTypes(converted, types) ==
    SumSeq([i \in 1..Len(converted) |->
               IF converted[i].original_entry.account_type \in types
               THEN converted[i].converted_amount ELSE 0])

\* the absolute converted amounts of the entries of the account types
AbsoluteOfTypes(converted, types) ==
    SumSeq([i \in 1..Len(converted) |->
               IF converted[i].original_entry.account_type \in types
               THEN Abs(converted[i].converted_amount) ELSE 0])

\* C23: in aggregation every converted entry goes to exactly one bucket,
\* fixed by its account type: BS_ASSET signed to total_assets, BS_LIABILITY
\* absolute to total_liabilities, BS_EQUITY and EQUITY_TXN signed to
\* total_equity, INCOME signed to total_revenue, EXPENSE absolute to
\* total_expenses; the totals hold nothing else of the entries.
C23_OneBucketPerEntry ==
    call_result.op = "aggregate_consolidated_financials" =>
        LET c == call_result.consolidated
            ppa == SumSeq([i \in 1..Len(call_result.ppa_entries) |->
                              call_result.ppa_entries[i].monthly_amortization])
            off(bucket) == EliminationsTotal(call_result.eliminations, bucket)
        IN  /\ c.total_assets + off("total_assets")
                  = SignedOfTypes(call_result.converted, {"BS_ASSET"})
            /\ c.total_liabilities + off("total_liabilities")
                  = AbsoluteOfTypes(call_result.converted, {"BS_LIABILITY"})
            /\ c.total_equity - c.net_income
                  = SignedOfTypes(call_result.converted, {"BS_EQUITY", "EQUITY_TXN"})
            /\ c.total_revenue + off("total_revenue")
                  = SignedOfTypes(call_result.converted, {"INCOME"})
            /\ c.total_expenses + off("total_expenses") - ppa
                  = AbsoluteOfTypes(call_result.converted, {"EXPENSE"})
            /\ \A i \in 1..Len(call_result.converted) :
                  call_result.converted[i].original_entry.account_type \in AccountType

\* a credit liability of 32 and a credit equity transaction of 128: the
\* liability counted as 32, the equity as -128
C23_Witness ==
    /\ call_result.op = "aggregate_consolidated_financials"
    /\ Len(call_result.converted) = 2
    /\ call_result.consolidated.total_liabilities = 32 * RateScale
    /\ call_result.consolidated.total_equity - call_result.consolidated.net_income
          = -128 * RateScale
    /\ call_result.consolidated.total_assets = 0

\* ------------------------------------------------------------------ C24
\* the monthly_amortization of every schedule entry of the period-end month
\* of the PPAs of the entities
PeriodAmortization(entity_ids, period_end_date) ==
    SumSeq([p \in 1..Len(ppas) |->
        IF p \notin DOMAIN schedules
           \/ ~(\E k \in 1..Len(entity_ids) : entity_ids[k] = ppas[p].entity_id)
        THEN 0
        ELSE SumSeq([a \in 1..Len(ValuesOf(schedules[p])) |->
                 SumSeq([n \in 1..Len(ValuesOf(schedules[p])[a]) |->
                     IF ValuesOf(schedules[p])[a][n].month = MonthOf(period_end_date)
                     THEN ValuesOf(schedules[p])[a][n].monthly_amortization ELSE 0])])])

\* C24: every result of consolidate() has net_income = total_revenue -
\* total_expenses exactly, its total_expenses holding the monthly
\* amortization of all PPA entries of the period-end month of the registered
\* entities, and total_equity = the equity entries + net_income; so
\* NetIncomeReconciliationRule passes on it.
C24_NetIncomeReconciles ==
    run.phase = "COMPLETE" =>
        LET c == run.consolidated
        IN  /\ c.net_income = c.total_revenue - c.total_expenses
            /\ c.total_expenses =
                  AbsoluteOfTypes(c.trial_balance, {"EXPENSE"})
                  - EliminationsTotal(c.eliminations, "total_expenses")
                  + PeriodAmortization(c.entities_included, c.period_end_date)
            /\ c.total_equity =
                  SignedOfTypes(c.trial_balance, {"BS_EQUITY", "EQUITY_TXN"}) + c.net_income
            /\ NetIncomeReconciliationRule(c)

\* a result with PPA amortization among its expenses
C24_Witness ==
    /\ run.phase = "COMPLETE"
    /\ run.consolidated.ppa_adjustments # <<>>
    /\ PeriodAmortization(run.consolidated.entities_included,
                          run.consolidated.period_end_date) > 0
    /\ run.consolidated.total_expenses >
          AbsoluteOfTypes(run.consolidated.trial_balance, {"EXPENSE"})
    /\ run.consolidated.net_income # 0

\* ------------------------------------------------------------------ C25
\* the step is a call of run_impairment_test
ImpairmentTested == ppa_result'.op = "run_impairment_test"

\* the qualitative stage requires the quantitative one: two indicators
\* present, or one of the two high-severity indicators
QualitativeRequires(indicators) ==
    LET present == {k \in DOMAIN indicators : indicators[k]}
    IN  \/ Cardinality(present) >= 2
        \/ "significant_adverse_change" \in present
        \/ "adverse_financial_performance" \in present

NoneSupplied(qualitative_indicators) ==
    qualitative_indicators.none \/ DOMAIN qualitative_indicators.value = {}

\* C25: run_impairment_test runs the quantitative stage only when no
\* indicators are supplied or the qualitative stage requires it; it then
\* returns max(0, carrying - recoverable) and otherwise returns 0; the
\* impairment history grows by exactly one record for each test that returns
\* a positive impairment, and never loses a record.
C25_ImpairmentStages ==
    [][/\ IsPrefix(impairment_history, impairment_history')
       /\ ImpairmentTested =>
             LET call == ppa_result'
             IN  /\ call.quantitative =>
                       \/ NoneSupplied(call.qualitative_indicators)
                       \/ QualitativeRequires(call.qualitative_indicators.value)
                 /\ call.returned =
                       IF call.quantitative
                       THEN Max(0, call.carrying_amount - call.recoverable_amount)
                       ELSE 0
                 /\ Len(impairment_history') =
                       Len(impairment_history) + (IF call.returned > 0 THEN 1 ELSE 0)
       /\ ~ImpairmentTested => impairment_history' = impairment_history]_vars

\* a second positive impairment recorded after the qualitative stage required
\* the test on two indicators neither of which is high-severity
C25_Witness ==
    /\ ppa_result.op = "run_impairment_test"
    /\ ppa_result.quantitative
    /\ ppa_result.returned > 0
    /\ ~NoneSupplied(ppa_result.qualitative_indicators)
    /\ "significant_adverse_change" \notin DOMAIN ppa_result.qualitative_indicators.value
    /\ Len(impairment_history) = 2

\* ------------------------------------------------------------------ C26
\* the failure is one retry_async is to retry: it carries a response whose
\* status code is retryable, or its class is a retryable exception
RetryableFailure(exception, config) ==
    \/ /\ exception.status_code # NoResponse
       /\ exception.status_code \in config.retryable_status_codes
    \/ \E exc_type \in config.retryable_exceptions : IsInstance(exception, exc_type)

\* C26: retry_async calls the wrapped function at most max_attempts times; a
\* failure with a retryable status code or of a retryable exception class is
\* retried until a call succeeds or max_attempts is reached, when
\* RetryExhaustedError is raised; any other failure is re-raised at once.
C26_RetriesRetryable ==
    /\ call_result.op \in {"retry_async", "retry_async returned", "retry_async raised",
                            "retry_async raised RetryExhaustedError"}
          => call_result.calls <= call_result.config.max_attempts
    /\ call_result.op = "retry_async raised"
          => ~RetryableFailure(call_result.last_exception, call_result.config)
    /\ call_result.op = "retry_async raised RetryExhaustedError"
          => /\ call_result.calls = call_result.config.max_attempts
             /\ call_result.calls > 0
                   => RetryableFailure(call_result.last_exception, call_result.config)

\* ------------------------------------------------------------------ C27
\* total debits and total credits of a trial balance
TotalDebits(entries) == SumSeq([i \in 1..Len(entries) |-> entries[i].debit_amount])
TotalCredits(entries) == SumSeq([i \in 1..Len(entries) |-> entries[i].credit_amount])

\* every loaded trial balance balances and is in the presentation currency
BalancedInPresentationCurrency ==
    \A t \in 1..Len(trial_balances) :
        /\ TotalDebits(trial_balances[t].entries) = TotalCredits(trial_balances[t].entries)
        /\ \A i \in 1..Len(trial_balances[t].entries) :
              trial_balances[t].entries[i].currency = "USD"

\* C27: if every loaded trial balance is balanced and in the presentation
\* currency, and the run has no intercompany matches and no PPA entries,
\* consolidate() returns a result with is_balanced = true.
C27_BalancedInputsBalance ==
    (/\ run.phase = "COMPLETE"
     /\ trial_balances # <<>>
     /\ BalancedInPresentationCurrency
     /\ run.consolidated.eliminations = <<>>
     /\ run.consolidated.ppa_adjustments = <<>>)
    => run.consolidated.is_balanced

\* ------------------------------------------------------------------ C28
\* C28: match_receivables_payables never matches a receivable and a payable
\* held in different currencies when fx_rates has no rate for the pair.
C28_NoMatchWithoutRate ==
    match_result.op = "match_receivables_payables" =>
        \A i \in 1..Len(MatchedPairs) :
            LET a == LegOf(match_result.receivables, MatchedPairs[i].ar)
                b == LegOf(match_result.payables, MatchedPairs[i].ap)
            IN  a.currency # b.currency
                   => <<a.currency, b.currency>> \in DOMAIN match_result.fx_rates

\* ------------------------------------------------------------------ C29
\* C29: for IFRS financials that are balanced within 0.01 and any
\* adjustments, prepare_dual_reporting returns US-GAAP financials (net income
\* and equity patched by the total adjustment, the other totals copied) whose
\* is_balanced is true.
C29_UsGaapBalanced ==
    (/\ gaap_result.op = "prepare_dual_reporting"
     /\ BalanceDifference(gaap_result.ifrs_financials) <= CentTolerance * RateScale)
    => LET ifrs == gaap_result.ifrs_financials
           us_gaap == gaap_result.returned
           patch == SumValues(gaap_result.adjustments) * RateScale
       IN  /\ us_gaap.net_income = ifrs.net_income + patch
           /\ us_gaap.total_equity = ifrs.total_equity + patch
           /\ us_gaap.total_assets = ifrs.total_assets
           /\ us_gaap.total_liabilities = ifrs.total_liabilities
           /\ us_gaap.total_revenue = ifrs.total_revenue
           /\ us_gaap.total_expenses = ifrs.total_expenses
           /\ us_gaap.total_cta = ifrs.total_cta
           /\ us_gaap.is_balanced

\* ------------------------------------------------------------------ C30
\* two consecutive submit_review calls on one request that requires two
\* reviewers, the first of them a 'rejected' that left the request pending
ReviewAfterRejection ==
    /\ oversight_result.op = "submit_review"
    /\ ~oversight_result.raised
    /\ oversight_result.decision = "rejected"
    /\ oversight_result.request_id \in DOMAIN review_requests
    /\ review_requests[oversight_result.request_id].required_reviewers = 2
    /\ oversight_result'.op = "submit_review"
    /\ ~oversight_result'.raised
    /\ oversight_result'.request_id = oversight_result.request_id

\* C30: a request that requires two reviewers ends 'approved' only if both
\* reviewers submitted 'approved': in whatever order the reviews arrive, a
\* 'rejected' of one reviewer is never overridden by the other's 'approved'.
C30_RejectionStands ==
    [][ReviewAfterRejection =>
          \A i \in HistoryPlaces(review_history', oversight_result.request_id) :
              review_history'[i].status # "approved"]_vars

\* ========================================================== specifications
Init == InitFX /\ InitPPA /\ InitMatch /\ InitEngine /\ InitRest

\* the FX rate manager on its own: add_rate and the two lookups
NextFX ==
    \/ /\ \E from \in Currency, to \in Currency, d \in AddDates, t \in AddTypes,
             v \in RateValues :
             from # to /\ AddRate(from, to, d, t, v)
       /\ fx_result' = [op |-> "add_rate"]
       /\ UNCHANGED <<ppavars, matchvars, enginevars, restvars>>
    \/ /\ \E p \in QueryPairs, d \in QueryDates, t \in QueryTypes :
             GetRate(p[1], p[2], d, t)
       /\ UNCHANGED <<ppavars, matchvars, enginevars, restvars>>
    \/ /\ \E p \in QueryPairs, w \in QueryWindows :
             GetAverageRate(p[1], p[2], w[1], w[2])
       /\ UNCHANGED <<ppavars, matchvars, enginevars, restvars>>

SpecFX == Init /\ [][NextFX]_vars

\* the PPA manager on its own
NextPPA ==
    \/ /\ \E entity \in EntityUniverse, pp \in PurchasePrices, fv \in FairValues,
             intangibles \in IntangibleChoices, periods \in PeriodChoices, today \in Todays :
             CreatePPA(entity, pp, fv, intangibles, periods, today)
       /\ UNCHANGED <<fxvars, matchvars, enginevars, restvars>>
    \/ /\ \E entity \in EntityUniverse, carrying_amount \in CarryingAmounts,
             recoverable_amount \in RecoverableAmounts,
             qualitative_indicators \in IndicatorChoices :
             RunImpairmentTest(entity.entity_id, carrying_amount, recoverable_amount,
                               qualitative_indicators)
       /\ UNCHANGED <<fxvars, matchvars, enginevars, restvars>>

SpecPPA == Init /\ [][NextPPA]_vars

\* the intercompany matcher on its own: one call, then its return
NextMatch ==
    \/ MatchReceivablesPayables /\ UNCHANGED <<fxvars, ppavars, enginevars, restvars>>
    \/ /\ \E period_end_date \in PeriodEnds, chart_of_accounts \in ChartOfAccountsChoices :
             CreateAllEliminations(period_end_date, chart_of_accounts)
       /\ UNCHANGED <<fxvars, ppavars, enginevars, restvars>>

InitCall == InitFX /\ InitPPA /\ InitMatchCall /\ InitEngine /\ InitRest

SpecMatch == InitCall /\ [][NextMatch]_vars

\* the consolidation engine with its rate manager, converter, eliminator and
\* PPA manager
NextEngine ==
    \/ /\ \E entity \in {e \in EntityUniverse : e.entity_id \notin KeysOf(entities)} :
             RegisterEntity(entity)
       /\ UNCHANGED <<fxvars, ppavars, matchvars, restvars>>
    \/ /\ \E entity_id \in {id \in EntityIds : id \notin KeysOf(trial_balances)} :
             \E entries \in TrialBalanceChoices(entity_id) :
                LoadTrialBalance(entity_id, entries)
       /\ UNCHANGED <<fxvars, ppavars, matchvars, restvars>>
    \/ /\ \E period_end_date \in PeriodEnds, period_start_date \in PeriodStarts,
             chart_of_accounts \in ChartOfAccountsChoices :
             StartConsolidation(period_end_date, period_start_date, chart_of_accounts)
       /\ UNCHANGED <<fxvars, ppavars, matchvars, restvars>>
    \/ ConvertAllTrialBalances /\ UNCHANGED <<fxvars, ppavars, matchvars, restvars>>
    \/ PerformEliminations /\ UNCHANGED <<fxvars, ppavars, matchvars, restvars>>
    \/ ApplyPPAAmortization /\ UNCHANGED <<fxvars, ppavars, matchvars, restvars>>
    \/ AggregateConsolidatedFinancials /\ UNCHANGED <<fxvars, ppavars, matchvars, restvars>>
    \/ ValidateBalance /\ UNCHANGED <<fxvars, ppavars, matchvars, restvars>>
    \/ CompleteConsolidation /\ UNCHANGED <<fxvars, ppavars, matchvars, restvars>>
    \/ EngineAddRate /\ UNCHANGED <<matchvars, restvars>>
    \/ EngineCreatePPA /\ UNCHANGED <<matchvars, restvars>>

Spec == Init /\ [][NextEngine]_vars

\* the reconciliation engine on its own
NextGAAP ==
    \/ /\ \E ifrs_net_income \in IfrsNetIncomes, adjustments \in AdjustmentChoices,
             period_end_date \in PeriodEnds :
             CreateReconciliation(ifrs_net_income, adjustments, period_end_date)
       /\ UNCHANGED <<fxvars, ppavars, matchvars, enginevars, convvars, validatorvars,
                      trailvars, oversightvars, callvars>>
    \/ /\ \E ifrs \in IfrsFinancialsChoices, adjustments \in AdjustmentChoices :
             PrepareDualReporting(ifrs, adjustments)
       /\ UNCHANGED <<fxvars, ppavars, matchvars, enginevars, convvars, validatorvars,
                      trailvars, oversightvars, callvars>>

SpecGAAP == Init /\ [][NextGAAP]_vars

\* the FX converter called directly, with its rate manager
NextConverter ==
    \/ /\ \E k \in ConverterRateKeys : ConverterAddRate(k[1], k[2])
       /\ UNCHANGED <<fx_result, ppavars, matchvars, gaapvars, validatorvars, trailvars,
                    oversightvars, callvars>>
       /\ UNCHANGED <<entities, trial_balances, audit_log, eliminations, run, engine_result>>
    \/ /\ \E entry \in ConverterCallEntries, period_start_date \in ConverterPeriodStarts :
             ConvertTrialBalanceEntry(entry, period_start_date)
       /\ UNCHANGED <<fx_result, ppavars, matchvars, gaapvars, validatorvars, trailvars,
                    oversightvars, callvars>>
       /\ UNCHANGED <<entities, trial_balances, audit_log, eliminations, run, engine_result>>
    \/ /\ \E entity_id \in ConverterEntityIds \cup {NoneId} : GetTotalCta(entity_id)
       /\ UNCHANGED <<fx_result, ppavars, matchvars, gaapvars, validatorvars, trailvars,
                    oversightvars, callvars>>
       /\ UNCHANGED <<entities, trial_balances, audit_log, eliminations, run, engine_result>>
    \/ /\ \E entity_id \in ConverterEntityIds \cup {NoneId} : ResetCta(entity_id)
       /\ UNCHANGED <<fx_result, ppavars, matchvars, gaapvars, validatorvars, trailvars,
                    oversightvars, callvars>>
       /\ UNCHANGED <<entities, trial_balances, audit_log, eliminations, run, engine_result>>

SpecConverter == Init /\ [][NextConverter]_vars

\* the validator on its own
NextValidator ==
    \/ /\ \E rule \in CustomRules : AddRule(rule)
       /\ UNCHANGED <<fxvars, ppavars, matchvars, enginevars, gaapvars, convvars, trailvars,
                    oversightvars, callvars>>
    \/ /\ \E c \in ValidatedFinancials : ValidateAll(c)
       /\ UNCHANGED <<fxvars, ppavars, matchvars, enginevars, gaapvars, convvars, trailvars,
                    oversightvars, callvars>>

SpecValidator == Init /\ [][NextValidator]_vars

\* the engine and a caller holding its audit trail
NextAudit ==
    \/ NextEngine
    \/ /\ GetConsolidationAuditTrail
       /\ UNCHANGED <<fxvars, ppavars, matchvars, gaapvars, convvars, validatorvars,
                    oversightvars, callvars>>
    \/ /\ \E alteration \in TrailAlterations : AlterAuditTrail(alteration)
       /\ UNCHANGED <<fxvars, ppavars, matchvars, gaapvars, convvars, validatorvars,
                    oversightvars, callvars>>

SpecAudit == Init /\ [][NextAudit]_vars

\* the oversight manager on its own
NextOversight ==
    \/ /\ \E risk_level \in RiskLevel, is_period_close \in BOOLEAN,
             is_regulatory_report \in BOOLEAN :
             CreateReviewRequest(risk_level, is_period_close, is_regulatory_report)
       /\ UNCHANGED <<fxvars, ppavars, matchvars, enginevars, gaapvars, convvars,
                      validatorvars, trailvars, callvars>>
    \/ /\ \E request_id \in SubmittedRequestIds, reviewer_id \in ReviewerIds,
             decision \in Decisions :
             SubmitReview(request_id, reviewer_id, decision)
       /\ UNCHANGED <<fxvars, ppavars, matchvars, enginevars, gaapvars, convvars,
                      validatorvars, trailvars, callvars>>

SpecOversight == Init /\ [][NextOversight]_vars

\* the revenue/expense matcher on its own: one call, then its return
NextRevExp ==
    MatchRevenuesExpenses /\ UNCHANGED <<fxvars, ppavars, enginevars, restvars>>

InitRevExp == InitFX /\ InitPPA /\ InitRevExpCall /\ InitEngine /\ InitRest

SpecRevExp == InitRevExp /\ [][NextRevExp]_vars

\* the aggregation on its own: one call, then its return
NextAggregate ==
    AggregateCall /\ UNCHANGED <<fxvars, ppavars, matchvars, enginevars, gaapvars, convvars,
                                  validatorvars, trailvars, oversightvars>>

InitAggregate ==
    InitFX /\ InitPPA /\ InitMatch /\ InitEngine /\ InitComponents /\ InitAggregateCall

SpecAggregate == InitAggregate /\ [][NextAggregate]_vars

\* retry_async on its own: the attempts of one call
NextRetry ==
    \/ /\ \E outcome \in Outcomes : RetryAttempt(outcome)
       /\ UNCHANGED <<fxvars, ppavars, matchvars, enginevars, gaapvars, convvars,
                      validatorvars, trailvars, oversightvars>>
    \/ /\ RetryWithoutAttempt
       /\ UNCHANGED <<fxvars, ppavars, matchvars, enginevars, gaapvars, convvars,
                      validatorvars, trailvars, oversightvars>>

InitRetry ==
    InitFX /\ InitPPA /\ InitMatch /\ InitEngine /\ InitComponents /\ InitRetryCall

SpecRetry == InitRetry /\ [][NextRetry]_vars

====
